---- MODULE Spec2Model ----
(***************************************************************************)
(* Rusty-Kaspa-Docker: the three operator scripts of the repository.       *)
(*                                                                         *)
(*   pre-check.py     requirement probes, hardware scorer, report          *)
(*   setup-wizard.py  prompt / validate / default loop, .env writer        *)
(*   install-docker.py                                                     *)
(*                                                                         *)
(* Text is modelled as a sequence of one-character strings, so that        *)
(* strip(), int(), str(), lower(), inet_aton() and Path.parent are         *)
(* computed character by character as the interpreter computes them.       *)
(* Byte quantities are counted in KiB (psutil and statvfs report whole     *)
(* multiples of it), which keeps every quantity below 2^31.                *)
(***************************************************************************)
EXTENDS Integers, Sequences, FiniteSets, TLC

VARIABLES
    pc,            \* position of the running script
    exit_code,     \* process exit status once the script has ended, else NoExit
    \* ---- pre-check.py
    cpu_info,      \* get_cpu_info(): [physical_cores]
    memory_info,   \* get_memory_info(): [total_kib]
    storage_info,  \* get_storage_info(): [type]
    results,       \* main(): the results dict, probe name -> BOOLEAN
    probe,         \* what the probe that ran last observed on the host
    ranking,       \* locals of rank_hardware_performance at its return
    report,        \* generate_report(): [passed, total] as printed
    \* ---- setup-wizard.py
    machine,       \* the host the wizard runs on: [os, in_project]
    env_file,      \* the file .env of the working directory
    config,        \* main(): the config dict
    locals,        \* the values the running *_configuration() has collected
    user_input,    \* the line input() returned last
    prompted,      \* the prompt that line answered
    typed,         \* how many non-empty lines the operator has typed
    depth,         \* nesting depth of network_configuration() calls
    unavailable_ports, \* network_configuration(): the chosen ports found busy
    saved,         \* what became of the save step
    bound,         \* loopback ports bound: by others at the last check, by the wizard
    \* ---- install-docker.py
    installed,     \* the host: the tools that are installed on it
    invoked,       \* the external commands run so far, with their outcomes
    detected       \* what the run has read from the host: system, distro, arch

precheckVars ==
    <<cpu_info, memory_info, storage_info, results, probe, ranking, report>>

wizardVars ==
    <<machine, env_file, config, locals, user_input, prompted, typed, depth,
      unavailable_ports, saved, bound>>

installerVars == <<installed, invoked, detected>>

vars == <<pc, exit_code, precheckVars, wizardVars, installerVars>>

NoExit == 0 - 1

(***************************************************************************)
(* Bounds of the model.                                                    *)
(***************************************************************************)
\* physical core counts 0..MaxCores are explored
MaxCores == 17
\* memory totals within MemSlack KiB of every breakpoint are explored
MemSlack == 1
\* the operator types at most MaxTyped non-empty lines in a wizard session
MaxTyped == 2
\* network_configuration() calls may nest MaxDepth deep before the
\* interpreter's recursion limit is reached
MaxDepth == 2

(***************************************************************************)
(* pre-check.py: hardware scorer (rank_hardware_performance).              *)
(***************************************************************************)
\* psutil.cpu_count(logical=False) returns None when it cannot determine the
\* number of physical cores; None is encoded as a value no count can take.
NoneCores == 0 - 1

\* 1024**3 bytes, in KiB
GiB == 1048576

CoreCounts == 0..MaxCores

MemoryBreakpoints == {4, 8, 16, 32, 64}

MemoryTotals ==
    {b * GiB + d : b \in MemoryBreakpoints, d \in (0 - MemSlack)..MemSlack}
        \cup (1..(1 + MemSlack))

StorageTypes == {"NVMe SSD", "SSD", "HDD", "Unknown"}

\* a bug CpuScore could have: the 8-core boundary compared with > instead of >=
CpuScore_StrictEight(cpu_cores) ==
    IF cpu_cores >= 16 THEN 100
    ELSE IF cpu_cores > 8 THEN 80
    ELSE IF cpu_cores >= 4 THEN 60
    ELSE IF cpu_cores >= 2 THEN 40
    ELSE 20

\* a bug CpuScore could have: the final else branch missing, so that the
\* initial cpu_score = 0 of line 357 survives below 2 cores
CpuScore_NoElse(cpu_cores) ==
    IF cpu_cores >= 16 THEN 100
    ELSE IF cpu_cores >= 8 THEN 80
    ELSE IF cpu_cores >= 4 THEN 60
    ELSE IF cpu_cores >= 2 THEN 40
    ELSE 0

\* pre-check.py 360-374
CpuScore(cpu_cores) ==
    IF cpu_cores >= 16 THEN 100
    ELSE IF cpu_cores >= 8 THEN 80
    ELSE IF cpu_cores >= 4 THEN 60
    ELSE IF cpu_cores >= 2 THEN 40
    ELSE 20

\* a bug MemoryScore could have: every boundary compared with > instead of >=
MemoryScore_Strict(total_kib) ==
    IF total_kib > 64 * GiB THEN 100
    ELSE IF total_kib > 32 * GiB THEN 90
    ELSE IF total_kib > 16 * GiB THEN 70
    ELSE IF total_kib > 8 * GiB THEN 50
    ELSE IF total_kib > 4 * GiB THEN 30
    ELSE 10

\* pre-check.py 387-404; total_gb = total / 1024**3 is exact in binary
\* floating point, so total_gb >= k is total_kib >= k * GiB
MemoryScore(total_kib) ==
    IF total_kib >= 64 * GiB THEN 100
    ELSE IF total_kib >= 32 * GiB THEN 90
    ELSE IF total_kib >= 16 * GiB THEN 70
    ELSE IF total_kib >= 8 * GiB THEN 50
    ELSE IF total_kib >= 4 * GiB THEN 30
    ELSE 10

\* pre-check.py 417-428
StorageScore(storage_type) ==
    IF storage_type = "NVMe SSD" THEN 100
    ELSE IF storage_type = "SSD" THEN 80
    ELSE IF storage_type = "HDD" THEN 40
    ELSE 20

\* a bug OverallScore could have: integer division `// 3`
OverallScore_FloorDiv(cpu_score, memory_score, storage_score) ==
    [num |-> (cpu_score + memory_score + storage_score) \div 3, den |-> 1]

\* pre-check.py 438: (cpu_score + memory_score + storage_score) / 3, kept as
\* the exact quotient num/den. Every operand is an integer below 2^53 and
\* every threshold is an integer, so the float comparison q >= k agrees with
\* the exact one.
OverallScore(cpu_score, memory_score, storage_score) ==
    [num |-> cpu_score + memory_score + storage_score, den |-> 3]

QGeq(q, k) == q.num >= k * q.den

\* pre-check.py 441-450
OverallRating(overall_score) ==
    IF QGeq(overall_score, 90) THEN "Excellent"
    ELSE IF QGeq(overall_score, 75) THEN "Very Good"
    ELSE IF QGeq(overall_score, 60) THEN "Good"
    ELSE IF QGeq(overall_score, 45) THEN "Fair"
    ELSE "Poor"

\* pre-check.py 498
HardwareAdequate(overall_score) == QGeq(overall_score, 45)

NoRanking == [done |-> FALSE]

Rank(cpu, mem, sto) ==
    LET cs == CpuScore(cpu.physical_cores)
        ms == MemoryScore(mem.total_kib)
        ss == StorageScore(sto.type)
        os == OverallScore(cs, ms, ss)
    IN  [done |-> TRUE, cpu_score |-> cs, memory_score |-> ms,
         storage_score |-> ss, overall_score |-> os,
         overall_rating |-> OverallRating(os)]

\* rank_hardware_performance with an integer core count: runs to its return
\* and main stores the result under 'Hardware' (pre-check.py 601-602)
RankHardware ==
    /\ pc = "Hardware"
    /\ cpu_info.physical_cores # NoneCores
    /\ ranking' = Rank(cpu_info, memory_info, storage_info)
    /\ results' = [n \in DOMAIN results \cup {"Hardware"} |->
                     IF n = "Hardware"
                     THEN HardwareAdequate(ranking'.overall_score)
                     ELSE results[n]]
    /\ pc' = "report"
    /\ UNCHANGED <<exit_code, cpu_info, memory_info, storage_info, probe, report>>
    /\ UNCHANGED <<wizardVars, installerVars>>

\* rank_hardware_performance with physical_cores = None: `None >= 16` at
\* line 360 raises TypeError, which nothing in pre-check.py catches; the
\* interpreter prints the traceback and exits with status 1
RankHardwareTypeError ==
    /\ pc = "Hardware"
    /\ cpu_info.physical_cores = NoneCores
    /\ pc' = "crashed"
    /\ exit_code' = 1
    /\ UNCHANGED <<precheckVars, wizardVars, installerVars>>

NoProbe == [name |-> "none"]

NoReport == [printed |-> FALSE]

\* no loopback port is bound, by another process or by the wizard
NoSockets == [others |-> {}, own |-> {}]

\* the wizard's state while another script runs
WizardIdle ==
    /\ machine = [os |-> "none"]
    /\ env_file = [exists |-> FALSE]
    /\ config = <<>>
    /\ locals = <<>>
    /\ user_input = <<>>
    /\ prompted = "none"
    /\ typed = 0
    /\ depth = 0
    /\ unavailable_ports = <<>>
    /\ saved = "none"
    /\ bound = NoSockets

\* the installer's state while another script runs
InstallerIdle ==
    /\ installed = {}
    /\ invoked = <<>>
    /\ detected = <<>>

NoInfo == [unread |-> TRUE]

\* the checker's state while another script runs
PreCheckIdle ==
    /\ cpu_info = NoInfo
    /\ memory_info = NoInfo
    /\ storage_info = NoInfo
    /\ results = <<>>
    /\ probe = NoProbe
    /\ ranking = NoRanking
    /\ report = NoReport

InitScore ==
    /\ pc = "Hardware"
    /\ exit_code = NoExit
    /\ cpu_info \in [physical_cores : CoreCounts \cup {NoneCores}]
    /\ memory_info \in [total_kib : MemoryTotals]
    /\ storage_info \in [type : StorageTypes]
    /\ results = <<>>
    /\ probe = NoProbe
    /\ ranking = NoRanking
    /\ report = NoReport
    /\ WizardIdle
    /\ InstallerIdle

NextScore == RankHardware \/ RankHardwareTypeError

\* rank_hardware_performance applied to every host profile within the bounds
SpecScore == InitScore /\ [][NextScore]_vars

\* the phrases get_storage_info looks for in the output of system_profiler
\* (pre-check.py 290-293) and of wmic (306-309)
StoragePhrases == {"Solid State", "NVMe", "SSD"}

\* outputs of `lsblk -d -o name,rota`: the lines of stdout, each line the
\* sequence of its whitespace-separated parts; the first line is the header
LsblkOutputs ==
    LET header == <<"NAME", "ROTA">>
    IN  {<<>>,
         <<header>>,
         <<header, <<"sda", "1">>>>,
         <<header, <<"sda", "0">>>>,
         <<header, <<>>, <<"sda", "1">>, <<"sdb", "0">>>>,
         <<header, <<"loop0">>, <<"sdb", "0">>, <<"sda", "1">>>>}

\* what get_storage_info finds on a host: whether psutil.disk_usage('.')
\* returns, the platform, how the platform's tool ends (subprocess.run
\* raises when the tool is missing), what it prints, and on Linux whether
\* /dev/nvme0n1 exists
StorageHosts ==
    [system : {"Linux"}, disk_usage : {"ok", "raises"},
     run : {"0", "nonzero", "raises"}, stdout : LsblkOutputs,
     nvme0n1 : BOOLEAN]
    \cup [system : {"Darwin", "Windows"}, disk_usage : {"ok", "raises"},
          run : {"0", "nonzero", "raises"}, stdout : SUBSET StoragePhrases]
    \cup [system : {"FreeBSD"}, disk_usage : {"ok", "raises"}]

\* pre-check.py 265-277: the first line after the header that has two parts
\* or more decides
lsblk_type(stdout) ==
    LET lines == IF stdout = <<>> THEN <<>> ELSE Tail(stdout)
        devices == SelectSeq(lines, LAMBDA line : Len(line) >= 2)
    IN  IF devices = <<>> THEN "Unknown"
        ELSE IF Head(devices)[2] = "0" THEN "SSD"
        ELSE "HDD"

\* pre-check.py 247-330
get_storage_info(host) ==
    IF host.disk_usage = "raises" THEN [type |-> "Unknown"]
    ELSE IF host.system = "Linux"
    THEN [type |-> IF host.run = "raises" THEN "Unknown"
                   ELSE IF host.nvme0n1 THEN "NVMe SSD"
                   ELSE IF host.run = "0" THEN lsblk_type(host.stdout)
                   ELSE "Unknown"]
    ELSE IF host.system = "Darwin"
    THEN [type |-> IF host.run # "0" THEN "Unknown"
                   ELSE IF "Solid State" \in host.stdout THEN "SSD"
                   ELSE IF "NVMe" \in host.stdout THEN "NVMe SSD"
                   ELSE "HDD"]
    ELSE IF host.system = "Windows"
    THEN [type |-> IF host.run # "0" THEN "Unknown"
                   ELSE IF "SSD" \in host.stdout \/ "Solid State" \in host.stdout
                        THEN "SSD"
                   ELSE IF "NVMe" \in host.stdout THEN "NVMe SSD"
                   ELSE "HDD"]
    ELSE [type |-> "Unknown"]

\* main 585: storage_info = get_storage_info()
GetStorageInfo ==
    /\ pc = "storage"
    /\ \E host \in StorageHosts :
          /\ storage_info' = get_storage_info(host)
          /\ probe' = [name |-> "storage", obs |-> host]
    /\ pc' = "Hardware"
    /\ UNCHANGED <<exit_code, cpu_info, memory_info, results, ranking, report>>
    /\ UNCHANGED <<wizardVars, installerVars>>

InitStorage ==
    /\ pc = "storage"
    /\ exit_code = NoExit
    /\ cpu_info \in [physical_cores : {NoneCores, 4}]
    /\ memory_info \in [total_kib : {8 * GiB}]
    /\ storage_info = NoInfo
    /\ results = <<>>
    /\ probe = NoProbe
    /\ ranking = NoRanking
    /\ report = NoReport
    /\ WizardIdle
    /\ InstallerIdle

NextStorage == GetStorageInfo \/ RankHardware \/ RankHardwareTypeError

\* get_storage_info on every storage host, then the scorer
SpecStorage == InitStorage /\ [][NextStorage]_vars

(***************************************************************************)
(* pre-check.py: the requirement probes and main.                          *)
(*                                                                         *)
(* A probe reads the host when it runs; what it read is kept in `probe`    *)
(* until the next probe runs.                                              *)
(***************************************************************************)
\* the results dict literal of main (pre-check.py 588-598), in evaluation order
ProbeOrder ==
    <<"OS", "Python", "Docker", "Docker Compose", "Required Files", "Ports",
      "Disk Space", "Memory", "Network">>

ProbeIndex(name) == CHOOSE i \in 1..Len(ProbeOrder) : ProbeOrder[i] = name

\* a bug main could have: the probes chained with `and`, so that the first
\* failing probe ends the probe phase
NextProbe_ShortCircuit(name, ok) ==
    IF ~ok THEN "report"
    ELSE IF ProbeIndex(name) < Len(ProbeOrder)
    THEN ProbeOrder[ProbeIndex(name) + 1]
    ELSE "Hardware"

\* pre-check.py 588-601: every entry of the dict literal is evaluated, then
\* rank_hardware_performance is called, whatever the probes returned
NextProbe(name, ok) ==
    IF ProbeIndex(name) < Len(ProbeOrder)
    THEN ProbeOrder[ProbeIndex(name) + 1]
    ELSE "Hardware"

\* the probe `name` observed `obs` and returned `ok`
Probed(name, obs, ok) ==
    /\ pc = name
    /\ probe' = [name |-> name, obs |-> obs, ok |-> ok]
    /\ results' = [n \in DOMAIN results \cup {name} |->
                     IF n = name THEN ok ELSE results[n]]
    /\ pc' = NextProbe(name, ok)
    /\ UNCHANGED <<exit_code, cpu_info, memory_info, storage_info, ranking, report>>
    /\ UNCHANGED <<wizardVars, installerVars>>

Systems == {"windows", "linux", "darwin", "freebsd"}

\* pre-check.py 65-73
check_os(system) == system \in {"windows", "linux", "darwin"}

CheckOs == \E system \in Systems : Probed("OS", system, check_os(system))

PythonVersions ==
    {[major |-> 2, minor |-> 7], [major |-> 3, minor |-> 5],
     [major |-> 3, minor |-> 6], [major |-> 3, minor |-> 12],
     [major |-> 4, minor |-> 0]}

\* pre-check.py 75-83
check_python(version) == version.major >= 3 /\ version.minor >= 6

CheckPython ==
    \E version \in PythonVersions : Probed("Python", version, check_python(version))

\* outcomes of subprocess.run(..., timeout=10) without check=True
RunOutcomes == {"0", "nonzero", "timeout"}

DockerHosts ==
    {[which |-> FALSE]}
        \cup {[which |-> TRUE, version |-> v] : v \in {"nonzero", "timeout"}}
        \cup {[which |-> TRUE, version |-> "0", info |-> i] : i \in RunOutcomes}

\* pre-check.py 85-116: `docker info` is run without check=True, so only its
\* timeout reaches the except clause of line 107
check_docker(host) ==
    IF ~host.which THEN FALSE
    ELSE IF host.version = "timeout" THEN FALSE
    ELSE IF host.version = "0" THEN host.info # "timeout"
    ELSE FALSE

CheckDocker == \E host \in DockerHosts : Probed("Docker", host, check_docker(host))

\* `docker compose version`: "notfound" is FileNotFoundError (no docker binary)
PluginOutcomes == RunOutcomes \cup {"notfound"}

ComposeHosts ==
    {[which |-> FALSE, plugin |-> p] : p \in PluginOutcomes}
        \cup {[which |-> TRUE, standalone |-> s] : s \in {"0", "timeout"}}
        \cup {[which |-> TRUE, standalone |-> "nonzero", plugin |-> p] :
                p \in PluginOutcomes}

\* pre-check.py 118-144
check_docker_compose(host) ==
    IF host.which /\ host.standalone = "0" THEN TRUE
    ELSE IF host.which /\ host.standalone = "timeout" THEN FALSE
    ELSE host.plugin = "0"

CheckDockerCompose ==
    \E host \in ComposeHosts :
        Probed("Docker Compose", host, check_docker_compose(host))

\* pre-check.py 520-524
required_files == <<"docker-compose.yml", "Dockerfile", ".env.example">>

\* pre-check.py 148
required_ports == <<16111, 17110, 18110>>

Range(seq) == {seq[i] : i \in 1..Len(seq)}

\* a bug the loops of check_required_files and check_ports could have: a
\* `break` after the first failure
ExamineAll_Break(items, good) ==
    LET bad == {i \in 1..Len(items) : items[i] \notin good}
        last == IF bad = {} THEN Len(items)
                ELSE CHOOSE i \in bad : \A j \in bad : i <= j
    IN  [examined |-> SubSeq(items, 1, last), all |-> bad = {}]

\* pre-check.py 526-534 and 149-162: the for loop visits every item, clears
\* the flag at each item that fails and never leaves early
ExamineAll(items, good) ==
    [examined |-> items, all |-> \A i \in 1..Len(items) : items[i] \in good]

\* pre-check.py 518-534; `present` are the files that exist
check_required_files(present) == ExamineAll(required_files, present)

CheckRequiredFiles ==
    \E present \in SUBSET Range(required_files) :
        LET r == check_required_files(present)
        IN  Probed("Required Files",
                   [present |-> present, examined |-> r.examined], r.all)

\* pre-check.py 146-162; `free` are the ports whose loopback bind succeeds
check_ports(free) == ExamineAll(required_ports, free)

\* the loopback ports another process may hold when the probe runs: the
\* listed ports and 16110, the node's gRPC port (setup-wizard.py 160)
HostPorts == Range(required_ports) \cup {16110}

CheckPorts ==
    \E free \in SUBSET HostPorts :
        LET r == check_ports(free)
        IN  Probed("Ports", [free |-> free, examined |-> r.examined], r.all)

\* pre-check.py 172 and 186
RequiredDiskGb == 10

\* free space in KiB, or Undetermined when statvfs and disk_usage both fail
Undetermined == 0 - 1

DiskHosts == {RequiredDiskGb * GiB - 1, RequiredDiskGb * GiB, Undetermined}

\* pre-check.py 164-196
check_disk_space(free_kib) ==
    IF free_kib = Undetermined THEN FALSE ELSE free_kib >= RequiredDiskGb * GiB

CheckDiskSpace ==
    \E free_kib \in DiskHosts :
        Probed("Disk Space", free_kib, check_disk_space(free_kib))

\* pre-check.py 506
RequiredMemoryGb == 2

MemoryHosts == {RequiredMemoryGb * GiB - 1, RequiredMemoryGb * GiB, Undetermined}

\* pre-check.py 332-349: when psutil raises, get_memory_info answers with
\* the made-up figures of its except clause (available_gb = 2)
AvailableKib(host_kib) == IF host_kib = Undetermined THEN 2 * GiB ELSE host_kib

\* pre-check.py 500-516
check_memory(host_kib) == AvailableKib(host_kib) >= RequiredMemoryGb * GiB

CheckMemory ==
    \E host_kib \in MemoryHosts : Probed("Memory", host_kib, check_memory(host_kib))

NetworkHosts ==
    {[dns |-> "gaierror"], [dns |-> "error"]}
        \cup {[dns |-> "ok", https |-> h] : h \in {"ok", "fails", "timeout"}}

\* a bug check_network could have: the HTTPS probe's failure treated as fatal
check_network_HttpsFatal(host) == host.dns = "ok" /\ host.https = "ok"

\* pre-check.py 536-559: gethostbyname raising (gaierror at 554, anything
\* else at 557) returns False; once it has returned, the bare `except:` at
\* 549 absorbs whatever urlopen raises and line 552 returns True
check_network(host) == host.dns = "ok"

CheckNetwork ==
    \E host \in NetworkHosts : Probed("Network", host, check_network(host))

\* a bug generate_report could have: the verdict taken from the probes alone,
\* the hardware result being counted but not required
generate_report_ProbesOnly(res) ==
    LET passed == Cardinality({n \in DOMAIN res : res[n]})
        total == Cardinality(DOMAIN res)
    IN  [printed |-> TRUE, passed |-> passed, total |-> total,
         success |-> \A n \in DOMAIN res \ {"Hardware"} : res[n]]

\* pre-check.py 561-576
generate_report(res) ==
    LET passed == Cardinality({n \in DOMAIN res : res[n]})
        total == Cardinality(DOMAIN res)
    IN  [printed |-> TRUE, passed |-> passed, total |-> total,
         success |-> passed = total]

\* pre-check.py 605-611
GenerateReport ==
    /\ pc = "report"
    /\ report' = generate_report(results)
    /\ exit_code' = IF report'.success THEN 0 ELSE 1
    /\ pc' = "done"
    /\ UNCHANGED <<cpu_info, memory_info, storage_info, results, probe, ranking>>
    /\ UNCHANGED <<wizardVars, installerVars>>

\* the exit status of an interpreter that is ended by a KeyboardInterrupt
\* nothing caught: 1 after the traceback (Python 3.6 and 3.7), or death by
\* SIGINT, which the shell reports as 128 + 2 (Python 3.8 and later)
UncaughtInterruptStatus == {1, 128 + 2}

\* pre-check.py 613-614: main() is called bare, no try statement encloses it
\* and main has none; a Ctrl-C that arrives while a probe, the hardware
\* analysis or the report runs outside one of the bare `except:` clauses
\* propagates to the interpreter, which prints the traceback and ends
PreCheckInterrupt ==
    /\ pc \in Range(ProbeOrder) \cup {"Hardware", "report"}
    /\ pc' = "interrupted"
    /\ exit_code' \in UncaughtInterruptStatus
    /\ UNCHANGED <<precheckVars, wizardVars, installerVars>>

\* host profiles main is run on
HostCores == {NoneCores, 1, 4, 16}

HostMemoryTotals == {2 * GiB, 8 * GiB, 64 * GiB}

\* pre-check.py 580-585: the state when main has read the hardware
InitPreCheck ==
    /\ pc = "OS"
    /\ exit_code = NoExit
    /\ cpu_info \in [physical_cores : HostCores]
    /\ memory_info \in [total_kib : HostMemoryTotals]
    /\ storage_info \in [type : StorageTypes]
    /\ results = <<>>
    /\ probe = NoProbe
    /\ ranking = NoRanking
    /\ report = NoReport
    /\ WizardIdle
    /\ InstallerIdle

NextPreCheck ==
    \/ CheckOs
    \/ CheckPython
    \/ CheckDocker
    \/ CheckDockerCompose
    \/ CheckRequiredFiles
    \/ CheckPorts
    \/ CheckDiskSpace
    \/ CheckMemory
    \/ CheckNetwork
    \/ RankHardware
    \/ RankHardwareTypeError
    \/ GenerateReport
    \/ PreCheckInterrupt

\* one run of pre-check.py
SpecPreCheck == InitPreCheck /\ [][NextPreCheck]_vars

(***************************************************************************)
(* Text, as the interpreter handles it: a sequence of characters.          *)
(***************************************************************************)
DigitChars == <<"0", "1", "2", "3", "4", "5", "6", "7", "8", "9">>

HexChars == DigitChars \o <<"a", "b", "c", "d", "e", "f">>

UpperChars ==
    <<"A", "B", "C", "D", "E", "F", "G", "H", "I", "J", "K", "L", "M",
      "N", "O", "P", "Q", "R", "S", "T", "U", "V", "W", "X", "Y", "Z">>

LowerChars ==
    <<"a", "b", "c", "d", "e", "f", "g", "h", "i", "j", "k", "l", "m",
      "n", "o", "p", "q", "r", "s", "t", "u", "v", "w", "x", "y", "z">>

IsSpace(c) == c \in {" ", "\n"}

IndexIn(chars, c) == CHOOSE i \in 1..Len(chars) : chars[i] = c

\* str.strip()
RECURSIVE LStrip(_)
LStrip(s) == IF s # <<>> /\ IsSpace(Head(s)) THEN LStrip(Tail(s)) ELSE s

RECURSIVE RStrip(_)
RStrip(s) ==
    IF s # <<>> /\ IsSpace(s[Len(s)]) THEN RStrip(SubSeq(s, 1, Len(s) - 1)) ELSE s

Strip(s) == RStrip(LStrip(s))

\* str.lower()
Lower(s) ==
    [i \in 1..Len(s) |->
        IF s[i] \in Range(UpperChars)
        THEN LowerChars[IndexIn(UpperChars, s[i])]
        ELSE s[i]]

\* the value of a digit sequence in the given base
RECURSIVE DigitsValue(_, _)
DigitsValue(s, base) ==
    IF s = <<>> THEN 0
    ELSE DigitsValue(SubSeq(s, 1, Len(s) - 1), base) * base
             + (IndexIn(HexChars, s[Len(s)]) - 1)

\* int(text), base 10: surrounding whitespace, one optional sign, then digits
\* with single underscores allowed between digits; anything else is ValueError
IntLiteral(s) ==
    LET t == Strip(s)
        signed == t # <<>> /\ Head(t) \in {"+", "-"}
        body == IF signed THEN Tail(t) ELSE t
        digits == SelectSeq(body, LAMBDA c : c # "_")
        wellformed ==
            /\ body # <<>>
            /\ \A i \in 1..Len(body) : body[i] \in Range(DigitChars) \cup {"_"}
            /\ body[1] # "_" /\ body[Len(body)] # "_"
            /\ \A i \in 1..(Len(body) - 1) : ~(body[i] = "_" /\ body[i + 1] = "_")
    IN  IF wellformed
        THEN [ok |-> TRUE,
              value |-> IF signed /\ Head(t) = "-"
                        THEN 0 - DigitsValue(digits, 10)
                        ELSE DigitsValue(digits, 10)]
        ELSE [ok |-> FALSE]

\* str(n) of an integer
RECURSIVE NatStr(_)
NatStr(n) ==
    IF n < 10 THEN <<DigitChars[n + 1]>>
    ELSE NatStr(n \div 10) \o <<DigitChars[(n % 10) + 1]>>

IntStr(n) == IF n < 0 THEN <<"-">> \o NatStr(0 - n) ELSE NatStr(n)

\* text.split(sep) for a one-character separator
RECURSIVE Split(_, _)
Split(s, sep) ==
    IF \A i \in 1..Len(s) : s[i] # sep THEN <<s>>
    ELSE LET k == CHOOSE i \in 1..Len(s) :
                      s[i] = sep /\ \A j \in 1..(i - 1) : s[j] # sep
         IN  <<SubSeq(s, 1, k - 1)>> \o Split(SubSeq(s, k + 1, Len(s)), sep)

\* one number of an address as inet_aton reads it (strtoul with base 0):
\* 0x.. is hexadecimal, a leading 0 is octal, anything else decimal
AddressPart(p) ==
    LET hex == Len(p) >= 2 /\ p[1] = "0" /\ p[2] \in {"x", "X"}
        oct == ~hex /\ Len(p) >= 2 /\ p[1] = "0"
        body == IF hex THEN Lower(SubSeq(p, 3, Len(p)))
                ELSE IF oct THEN Tail(p) ELSE p
        base == IF hex THEN 16 ELSE IF oct THEN 8 ELSE 10
        allowed == {HexChars[i] : i \in 1..base}
    IN  IF body # <<>> /\ \A i \in 1..Len(body) : body[i] \in allowed
        THEN [ok |-> TRUE, value |-> DigitsValue(body, base)]
        ELSE [ok |-> FALSE]

\* socket.inet_aton(text) succeeds: one to four numbers separated by dots;
\* every number but the last is one byte, the last fills the remaining bytes
\* (a.b.c.d, a.b.c with c < 2^16, a.b with b < 2^24, a with a < 2^32);
\* the address ends at the first whitespace and what follows is ignored
inet_aton(text) ==
    LET cut == IF \E i \in 1..Len(text) : IsSpace(text[i])
               THEN SubSeq(text, 1,
                           (CHOOSE i \in 1..Len(text) :
                                IsSpace(text[i])
                                /\ \A j \in 1..(i - 1) : ~IsSpace(text[j])) - 1)
               ELSE text
        parts == Split(cut, ".")
        n == Len(parts)
        nums == [i \in 1..n |-> AddressPart(parts[i])]
    IN  /\ n <= 4
        /\ \A i \in 1..n : nums[i].ok
        /\ \A i \in 1..(n - 1) : nums[i].value <= 255
        /\ CASE n = 4 -> nums[n].value <= 255
             [] n = 3 -> nums[n].value <= 65535
             [] n = 2 -> nums[n].value \div 256 <= 65535
             [] OTHER -> nums[n].value \div 65536 <= 65535

\* pathlib: the parts of a path (empty and "." components dropped), whether it
\* is anchored at the root, and str() of such a path
PathParts(path, seps) ==
    LET norm == [i \in 1..Len(path) |-> IF path[i] \in seps THEN "/" ELSE path[i]]
    IN  SelectSeq(Split(norm, "/"), LAMBDA c : c # <<>> /\ c # <<".">>)

IsAbsolute(path, seps) == path # <<>> /\ path[1] \in seps

RECURSIVE Join(_)
Join(parts) ==
    IF parts = <<>> THEN <<>>
    ELSE IF Len(parts) = 1 THEN parts[1]
    ELSE parts[1] \o <<"/">> \o Join(Tail(parts))

PathStr(abs, parts) ==
    IF abs THEN <<"/">> \o Join(parts)
    ELSE IF parts = <<>> THEN <<".">> ELSE Join(parts)

\* Path(path).parent, as str
Parent(path, seps) ==
    LET parts == PathParts(path, seps)
    IN  PathStr(IsAbsolute(path, seps),
                IF parts = <<>> THEN parts ELSE SubSeq(parts, 1, Len(parts) - 1))

(***************************************************************************)
(* setup-wizard.py.                                                        *)
(*                                                                         *)
(* One action per input() call: it reads the operator's line and runs the  *)
(* script up to the next input() call or to its exit.                      *)
(***************************************************************************)
\* setup-wizard.py 155-176, 211-221, 241-246, 262-269, 289-290, 307-310: the
\* get_input calls in program order, each with the default and the validator
\* it passes, and the configuration function that makes it
Prompts ==
    <<[key |-> "P2P_PORT", default |-> <<"1", "6", "1", "1", "1">>,
       validator |-> "port", group |-> "network"],
      [key |-> "GRPC_PORT", default |-> <<"1", "6", "1", "1", "0">>,
       validator |-> "port", group |-> "network"],
      [key |-> "WRPC_BORSH_PORT", default |-> <<"1", "7", "1", "1", "0">>,
       validator |-> "port", group |-> "network"],
      [key |-> "WRPC_JSON_PORT", default |-> <<"1", "8", "1", "1", "0">>,
       validator |-> "port", group |-> "network"],
      [key |-> "EXTERNAL_IP", default |-> <<"0", ".", "0", ".", "0", ".", "0">>,
       validator |-> "ip", group |-> "network"],
      [key |-> "CONTAINER_NAME", default |-> <<"k", "a", "s", "p", "a", "-", "n", "o", "d", "e">>,
       validator |-> "none", group |-> "container"],
      [key |-> "IMAGE_NAME", default |-> <<"l", "o", "c", "a", "l", "/", "r", "e", "s", "e", "a", "r", "c", "h", "-", "p", "a", "d">>,
       validator |-> "none", group |-> "container"],
      [key |-> "IMAGE_TAG", default |-> <<"l", "a", "t", "e", "s", "t">>,
       validator |-> "none", group |-> "container"],
      [key |-> "DATA_VOLUME_PATH", default |-> <<".", "/", "k", "a", "s", "p", "a", "-", "d", "a", "t", "a">>,
       validator |-> "none", group |-> "data"],
      [key |-> "APP_DATA_PATH", default |-> <<"/", "a", "p", "p", "/", "d", "a", "t", "a">>,
       validator |-> "none", group |-> "data"],
      [key |-> "DNS_PRIMARY", default |-> <<"8", ".", "8", ".", "8", ".", "8">>,
       validator |-> "none", group |-> "system"],
      [key |-> "DNS_SECONDARY", default |-> <<"1", ".", "1", ".", "1", ".", "1">>,
       validator |-> "none", group |-> "system"],
      [key |-> "USER_ID", default |-> <<"0">>,
       validator |-> "none", group |-> "system"],
      [key |-> "GROUP_ID", default |-> <<"0">>,
       validator |-> "none", group |-> "system"],
      [key |-> "ULIMIT_SOFT", default |-> <<"1", "0", "4", "8", "5", "7", "6">>,
       validator |-> "none", group |-> "resource"],
      [key |-> "ULIMIT_HARD", default |-> <<"1", "0", "4", "8", "5", "7", "6">>,
       validator |-> "none", group |-> "resource"],
      [key |-> "HEALTH_CHECK_INTERVAL", default |-> <<"3", "0", "s">>,
       validator |-> "none", group |-> "health"],
      [key |-> "HEALTH_CHECK_TIMEOUT", default |-> <<"5", "s">>,
       validator |-> "none", group |-> "health"],
      [key |-> "HEALTH_CHECK_RETRIES", default |-> <<"2", "0">>,
       validator |-> "none", group |-> "health"],
      [key |-> "HEALTH_CHECK_START_PERIOD", default |-> <<"6", "0", "s">>,
       validator |-> "none", group |-> "health"]>>

PromptKeys == {Prompts[i].key : i \in 1..Len(Prompts)}

PromptIndex(key) == CHOOSE i \in 1..Len(Prompts) : Prompts[i].key = key

\* setup-wizard.py 118-126 (get_system_info), 241
default_data_dir(os) ==
    IF os = "Windows" THEN <<".", "\\", "k", "a", "s", "p", "a", "-", "d", "a", "t", "a">> ELSE <<".", "/", "k", "a", "s", "p", "a", "-", "d", "a", "t", "a">>

PromptDefault(key, os) ==
    IF key = "DATA_VOLUME_PATH" THEN default_data_dir(os)
    ELSE Prompts[PromptIndex(key)].default

\* a bug validate_port could have: the upper limit not checked
validate_port_NoUpperLimit(port_str) ==
    LET port == IntLiteral(port_str)
    IN  IF port.ok /\ 1 <= port.value
        THEN [ok |-> TRUE, value |-> IntStr(port.value)]
        ELSE [ok |-> FALSE]

\* a bug validate_port could have: the text returned as it was typed
validate_port_Verbatim(port_str) ==
    LET port == IntLiteral(port_str)
    IN  IF port.ok /\ 1 <= port.value /\ port.value <= 65535
        THEN [ok |-> TRUE, value |-> port_str]
        ELSE [ok |-> FALSE]

\* setup-wizard.py 75-84: the ValueError of int() and the one raised at line
\* 82 both leave through the except clause of line 83 as ValueError
validate_port(port_str) ==
    LET port == IntLiteral(port_str)
    IN  IF port.ok /\ 1 <= port.value /\ port.value <= 65535
        THEN [ok |-> TRUE, value |-> IntStr(port.value)]
        ELSE [ok |-> FALSE]

\* setup-wizard.py 86-92
validate_ip(ip_str) ==
    IF inet_aton(ip_str) THEN [ok |-> TRUE, value |-> ip_str] ELSE [ok |-> FALSE]

\* directories that exist on the machine, as str(Path)
ExistingDirs == {<<".">>, <<"/">>}

PathSeps(os) == IF os = "Windows" THEN {"/", "\\"} ELSE {"/"}

\* setup-wizard.py 94-106; no get_input call passes this validator
validate_path(path_str, os) ==
    IF path_str = <<>> THEN [ok |-> FALSE]
    ELSE IF Parent(path_str, PathSeps(os)) \notin ExistingDirs THEN [ok |-> FALSE]
    ELSE [ok |-> TRUE,
          value |-> PathStr(IsAbsolute(path_str, PathSeps(os)),
                            PathParts(path_str, PathSeps(os)))]

Validate(validator, text) ==
    IF validator = "port" THEN validate_port(text) ELSE validate_ip(text)

\* a bug get_input could have: the default substituted only on the path that
\* has a validator
get_input_DefaultIfValidated(line, default, validator) ==
    LET user_in == Strip(line)
    IN  IF validator # "none"
        THEN IF user_in = <<>> /\ default # <<>>
             THEN [accepted |-> TRUE, value |-> default]
             ELSE LET v == Validate(validator, user_in)
                  IN  IF v.ok THEN [accepted |-> TRUE, value |-> v.value]
                      ELSE [accepted |-> FALSE]
        ELSE [accepted |-> TRUE, value |-> user_in]

\* setup-wizard.py 51-73, one turn of the loop on the line the operator
\* typed: accepted with the value returned, or not accepted (the loop prints
\* the error and prompts again)
get_input(line, default, validator) ==
    LET user_in == Strip(line)
    IN  IF user_in = <<>> /\ default # <<>>
        THEN [accepted |-> TRUE, value |-> default]
        ELSE IF validator # "none"
        THEN LET v == Validate(validator, user_in)
             IN  IF v.ok THEN [accepted |-> TRUE, value |-> v.value]
                 ELSE [accepted |-> FALSE]
        ELSE [accepted |-> TRUE, value |-> user_in]

\* lines the operator may type at a prompt
PortLines ==
    {<<>>,
     <<"7", "0", "0", "0", "0">>,
     <<"0">>,
     <<"a", "b", "c">>,
     <<"6", "5", "5", "3", "5">>,
     <<"6", "5", "5", "3", "6">>,
     <<"+", "8", "0">>,
     <<"0", "0", "8", "0">>,
     <<" ", "4", "4", "3", " ">>,
     <<"-", "1">>}

IpLines ==
    {<<>>,
     <<"9", "9", "9", ".", "1", ".", "1", ".", "1">>,
     <<"1", "0", ".", "0", ".", "0", ".", "5">>,
     <<"1", "2", "7", ".", "1">>,
     <<"1", ".", "2", ".", "3">>,
     <<"a", "b", "c">>,
     <<"0", "x", "7", "f", ".", "0", ".", "0", ".", "1">>,
     <<"1", ".", "2", ".", "3", ".", "4", ".", "5">>}

PathLines ==
    {<<>>,
     <<"/", "x", "/", "d">>,
     <<"/", "d">>,
     <<"d">>}

TextLines ==
    {<<>>,
     <<" ">>,
     <<"n", "o", "d", "e", "2">>}

YesNoLines ==
    {<<>>,
     <<"y">>,
     <<"Y">>,
     <<"n">>,
     <<"N">>,
     <<"n", "o">>}

Lines(prompt) ==
    IF prompt \in {"continue_anyway", "save", "overwrite"} THEN YesNoLines
    ELSE IF prompt \notin PromptKeys THEN {<<>>}
    ELSE IF prompt = "DATA_VOLUME_PATH" THEN PathLines
    ELSE IF Prompts[PromptIndex(prompt)].validator = "port" THEN PortLines
    ELSE IF Prompts[PromptIndex(prompt)].validator = "ip" THEN IpLines
    ELSE TextLines

\* the operator's line is read: input() of line 59 (and of 445, 482, 490)
Reads(line) ==
    /\ Strip(line) = <<>> \/ typed < MaxTyped
    /\ user_input' = line
    /\ prompted' = pc
    /\ typed' = IF Strip(line) = <<>> THEN typed ELSE typed + 1

\* dict.update
Update(d, e) ==
    [k \in DOMAIN d \cup DOMAIN e |-> IF k \in DOMAIN e THEN e[k] ELSE d[k]]

\* the prompt that follows `key` in main (setup-wizard.py 452-473)
AfterPrompt(key) ==
    IF PromptIndex(key) < Len(Prompts) THEN Prompts[PromptIndex(key) + 1].key
    ELSE "save"

LastOfGroup(key) ==
    \/ PromptIndex(key) = Len(Prompts)
    \/ Prompts[PromptIndex(key) + 1].group # Prompts[PromptIndex(key)].group

\* setup-wizard.py 323-364: the template, key by key
EnvTemplate ==
    <<"SERVICE_NAME", "CONTAINER_NAME", "IMAGE_NAME",
      "IMAGE_TAG", "P2P_PORT", "GRPC_PORT",
      "WRPC_BORSH_PORT", "WRPC_JSON_PORT", "EXTERNAL_IP",
      "DATA_VOLUME_PATH", "APP_DATA_PATH", "DNS_PRIMARY",
      "DNS_SECONDARY", "USER_ID", "GROUP_ID",
      "ULIMIT_SOFT", "ULIMIT_HARD", "HEALTH_CHECK_INTERVAL",
      "HEALTH_CHECK_TIMEOUT", "HEALTH_CHECK_RETRIES", "HEALTH_CHECK_START_PERIOD",
      "PEERS">>

\* env_content: the KEY=VALUE lines of the rendered template
Render(cfg) ==
    [i \in 1..Len(EnvTemplate) |->
        [key |-> EnvTemplate[i],
         value |-> IF EnvTemplate[i] = "SERVICE_NAME"
                   THEN <<"r", "e", "s", "e", "a", "r", "c", "h", "-", "p", "a", "d">>
                   ELSE IF EnvTemplate[i] = "PEERS"
                   THEN <<"5", "1", ".", "7", "9", ".", "2", "4", ".", "8", "2", ":", "1", "6", "1", "1", "1", ",", "1", "6", "2", ".", "5", "5", ".", "1", "0", "0", ".", "1", "2", "4", ":", "1", "6", "1", "1", "1">>
                   ELSE cfg[EnvTemplate[i]]]]

NoFile == [exists |-> FALSE]

\* a .env left by an earlier session
OldEnvFile ==
    [exists |-> TRUE,
     lines |-> <<[key |-> "P2P_PORT", value |-> <<"2", "6", "1", "1", "1">>]>>]

\* setup-wizard.py 373-380: open('.env', 'w') truncates the file before
\* write() is called, so a failing open leaves the file as it was and a
\* failing write leaves it empty
WriteOutcomes == {"written", "open fails", "write fails"}

FileAfter(file, cfg, outcome) ==
    IF outcome = "written" THEN [exists |-> TRUE, lines |-> Render(cfg)]
    ELSE IF outcome = "write fails" THEN [exists |-> TRUE, lines |-> <<>>]
    ELSE file

\* a bug save_env_file could have: only an explicit "n" declines
Confirms_UnlessN(response) == Lower(response) # <<"n">>

\* setup-wizard.py 191 and 369: response.lower() != 'y' declines
Confirms(response) == Lower(response) = <<"y">>

\* setup-wizard.py 474: response.lower() != 'n' saves
WantsSave(response) == Lower(response) # <<"n">>

\* main 439-446
Start ==
    /\ pc = "wizard"
    /\ pc' = IF machine.in_project THEN "P2P_PORT" ELSE "press_enter_missing"
    /\ UNCHANGED <<exit_code, precheckVars, wizardVars, installerVars>>

\* a get_input call that is not the last of network_configuration
AnswerPrompt ==
    /\ pc \in PromptKeys \ {"EXTERNAL_IP"}
    /\ \E line \in Lines(pc) :
          LET r == get_input(line, PromptDefault(pc, machine.os),
                             Prompts[PromptIndex(pc)].validator)
              filled == Update(locals, (pc :> r.value))
          IN  /\ Reads(line)
              /\ IF ~r.accepted
                 THEN /\ pc' = pc
                      /\ UNCHANGED <<locals, config>>
                 ELSE /\ pc' = AfterPrompt(pc)
                      /\ IF LastOfGroup(pc)
                         THEN config' = Update(config, filled) /\ locals' = <<>>
                         ELSE locals' = filled /\ UNCHANGED config
    /\ UNCHANGED <<exit_code, precheckVars, installerVars, machine, env_file, depth,
                   unavailable_ports, saved, bound>>

PortKeys == <<"P2P_PORT", "GRPC_PORT", "WRPC_BORSH_PORT", "WRPC_JSON_PORT">>

\* socket.bind(('127.0.0.1', port)) of a fresh socket: OSError when a socket
\* is bound to that port already
bind(port, in_use) == port \notin in_use

\* a bug check_port_available could have: the socket created without the
\* `with` statement and never closed, so that a successful bind outlives
\* the call
check_port_available_Leak(port, others, own) ==
    LET number == IntLiteral(port).value
        ok == bind(number, others \cup own)
    IN  [available |-> ok, own |-> IF ok THEN own \cup {number} ELSE own]

\* setup-wizard.py 108-116. `others` are the ports other processes hold,
\* `own` the ports held by sockets of the wizard itself. The socket lives
\* inside the `with` statement, whose exit closes it on the return as on the
\* OSError; it was never connected or listening, so closing frees the port
check_port_available(port, others, own) ==
    LET number == IntLiteral(port).value
        ok == bind(number, others \cup own)
        inside == IF ok THEN own \cup {number} ELSE own
    IN  [available |-> ok, own |-> inside \ {number}]

\* setup-wizard.py 180-185: the ports are probed one after the other
RECURSIVE ProbeEach(_, _, _)
ProbeEach(ports, others, own) ==
    IF ports = <<>> THEN [unavailable_ports |-> <<>>, own |-> own]
    ELSE LET r == check_port_available(Head(ports), others, own)
             rest == ProbeEach(Tail(ports), others, r.own)
         IN  [unavailable_ports |->
                  IF r.available THEN rest.unavailable_ports
                  ELSE <<Head(ports)>> \o rest.unavailable_ports,
              own |-> rest.own]

\* setup-wizard.py 179-185 for the four chosen ports; `busy` are the ports
\* other processes hold while the check runs
Unavailable(chosen, busy, own) ==
    ProbeEach([i \in 1..Len(PortKeys) |-> chosen[PortKeys[i]]], busy, own)

\* setup-wizard.py 176-200: the external IP prompt, then the availability
\* check of the four chosen ports
AnswerExternalIp ==
    /\ pc = "EXTERNAL_IP"
    /\ \E line \in Lines(pc) :
          LET r == get_input(line, PromptDefault(pc, machine.os), "ip")
              filled == Update(locals, (pc :> r.value))
          IN  /\ Reads(line)
              /\ IF ~r.accepted
                 THEN /\ pc' = pc
                      /\ UNCHANGED <<locals, config, unavailable_ports, depth,
                                     bound>>
                 ELSE \E busy \in SUBSET {IntLiteral(filled[PortKeys[i]]).value :
                                             i \in 1..Len(PortKeys)} :
                        LET checked == Unavailable(filled, busy, bound.own)
                        IN  /\ bound' = [others |-> busy, own |-> checked.own]
                            /\ IF checked.unavailable_ports # <<>>
                               THEN /\ pc' = "continue_anyway"
                                    /\ locals' = filled
                                    /\ unavailable_ports' =
                                           checked.unavailable_ports
                                    /\ UNCHANGED <<config, depth>>
                               ELSE /\ pc' = AfterPrompt(pc)
                                    /\ config' = Update(config, filled)
                                    /\ locals' = <<>>
                                    /\ depth' = 0
                                    /\ UNCHANGED unavailable_ports
    /\ UNCHANGED <<exit_code, precheckVars, installerVars, machine, env_file, saved>>

\* a bug network_configuration could have: the prompts repeated by a loop
\* instead of the nested call, which no recursion limit ends
AnswerContinueAnyway_Loop ==
    /\ pc = "continue_anyway"
    /\ \E line \in Lines(pc) :
          LET response == get_input(line, <<"N">>, "none").value
          IN  /\ Reads(line)
              /\ IF ~Confirms(response)
                 THEN /\ pc' = "P2P_PORT"
                      /\ locals' = <<>>
                      /\ unavailable_ports' = <<>>
                      /\ UNCHANGED <<config, depth>>
                 ELSE /\ pc' = AfterPrompt("EXTERNAL_IP")
                      /\ config' = Update(config, locals)
                      /\ locals' = <<>>
                      /\ unavailable_ports' = <<>>
                      /\ depth' = 0
    /\ bound' = [bound EXCEPT !.others = {}]
    /\ UNCHANGED <<exit_code, precheckVars, installerVars, machine, env_file, saved>>

\* setup-wizard.py 190-192: "Continue anyway? (y/N)". Declining calls
\* network_configuration again from inside itself; the call that would
\* exceed the interpreter's recursion limit raises RecursionError, which the
\* `except Exception` of main (488-491) reports before its own input()
AnswerContinueAnyway ==
    /\ pc = "continue_anyway"
    /\ \E line \in Lines(pc) :
          LET response == get_input(line, <<"N">>, "none").value
          IN  /\ Reads(line)
              /\ IF ~Confirms(response)
                 THEN IF depth < MaxDepth
                      THEN /\ pc' = "P2P_PORT"
                           /\ depth' = depth + 1
                           /\ locals' = <<>>
                           /\ unavailable_ports' = <<>>
                           /\ UNCHANGED config
                      ELSE /\ pc' = "press_enter_error"
                           /\ depth' = 0
                           /\ locals' = <<>>
                           /\ unavailable_ports' = <<>>
                           /\ UNCHANGED config
                 ELSE /\ pc' = AfterPrompt("EXTERNAL_IP")
                      /\ config' = Update(config, locals)
                      /\ locals' = <<>>
                      /\ unavailable_ports' = <<>>
                      /\ depth' = 0
    /\ bound' = [bound EXCEPT !.others = {}]
    /\ UNCHANGED <<exit_code, precheckVars, installerVars, machine, env_file, saved>>

\* setup-wizard.py 373-380
WritesEnv ==
    \E outcome \in WriteOutcomes :
        /\ env_file' = FileAfter(env_file, config, outcome)
        /\ saved' = IF outcome = "written" THEN "written" ELSE "failed"
        /\ pc' = "press_enter"

\* main 473-480 with save_env_file 319-380 up to its next input()
AnswerSave ==
    /\ pc = "save"
    /\ \E line \in Lines(pc) :
          LET response == get_input(line, <<"Y">>, "none").value
          IN  /\ Reads(line)
              /\ IF ~WantsSave(response)
                 THEN /\ saved' = "cancelled"
                      /\ pc' = "press_enter"
                      /\ UNCHANGED env_file
                 ELSE IF env_file.exists
                 THEN /\ pc' = "overwrite"
                      /\ UNCHANGED <<env_file, saved>>
                 ELSE WritesEnv
    /\ UNCHANGED <<exit_code, precheckVars, installerVars, machine, config, locals, depth,
                   unavailable_ports, bound>>

\* save_env_file 367-380: "A .env file already exists. Overwrite it? (y/N)"
AnswerOverwrite ==
    /\ pc = "overwrite"
    /\ \E line \in Lines(pc) :
          LET response == get_input(line, <<"N">>, "none").value
          IN  /\ Reads(line)
              /\ IF ~Confirms(response)
                 THEN /\ saved' = "declined"
                      /\ pc' = "press_enter"
                      /\ UNCHANGED env_file
                 ELSE WritesEnv
    /\ UNCHANGED <<exit_code, precheckVars, installerVars, machine, config, locals, depth,
                   unavailable_ports, bound>>

\* main 482-483, 445-446, 490-491: "Press Enter to exit..."
PressEnter ==
    /\ pc \in {"press_enter", "press_enter_missing", "press_enter_error"}
    /\ \E line \in Lines(pc) : Reads(line)
    /\ exit_code' = IF pc = "press_enter" THEN 0 ELSE 1
    /\ pc' = "done"
    /\ UNCHANGED <<precheckVars, installerVars, machine, env_file, config, locals, depth,
                   unavailable_ports, saved, bound>>

\* main 485-487: Ctrl-C at any input() inside the try block
Interrupt ==
    /\ pc \in PromptKeys
            \cup {"continue_anyway", "save", "overwrite", "press_enter",
                  "press_enter_missing"}
    /\ exit_code' = 1
    /\ pc' = "done"
    /\ UNCHANGED <<precheckVars, wizardVars, installerVars>>

\* main 488-491: Ctrl-C at the input() of the `except Exception` clause is
\* raised inside the handler, outside the try block, and leaves main uncaught
InterruptInHandler ==
    /\ pc = "press_enter_error"
    /\ exit_code' \in UncaughtInterruptStatus
    /\ pc' = "interrupted"
    /\ UNCHANGED <<precheckVars, wizardVars, installerVars>>

Hosts == [os : {"Linux", "Windows"}, in_project : BOOLEAN]

\* the state when main of setup-wizard.py is entered
InitWizard ==
    /\ pc = "wizard"
    /\ exit_code = NoExit
    /\ PreCheckIdle
    /\ InstallerIdle
    /\ machine \in Hosts
    /\ env_file \in {NoFile, OldEnvFile}
    /\ config = <<>>
    /\ locals = <<>>
    /\ user_input = <<>>
    /\ prompted = "none"
    /\ typed = 0
    /\ depth = 0
    /\ unavailable_ports = <<>>
    /\ saved = "none"
    /\ bound = NoSockets

NextWizard ==
    \/ Start
    \/ AnswerPrompt
    \/ AnswerExternalIp
    \/ AnswerContinueAnyway
    \/ AnswerSave
    \/ AnswerOverwrite
    \/ PressEnter
    \/ Interrupt
    \/ InterruptInHandler

\* one session of setup-wizard.py
SpecWizard == InitWizard /\ [][NextWizard]_vars

(***************************************************************************)
(* install-docker.py: main, the installation branches and the              *)
(* verification.                                                            *)
(*                                                                         *)
(* One step per external interaction: a command run through run_command    *)
(* or subprocess.run, a download, the write of the downloaded binary.      *)
(* `pc` names the interaction the run is about to perform.                 *)
(***************************************************************************)
\* what can be present on the host
Tools == {"docker", "docker-compose", "compose-plugin", "brew"}

\* install-docker.py 90-92: shutil.which finds an executable file of that
\* name in a directory of PATH. The compose plugin is not such a file (it
\* sits in docker's cli-plugins directory), and no executable is named
\* "docker compose"
check_command_exists(command, inst) ==
    command \in inst \cap {"docker", "docker-compose", "brew"}

\* the external interactions of the script: the function that performs it,
\* what it runs, and whether it goes through run_command (which turns every
\* failure into a False return) or is called bare
Commands ==
    <<[step |-> "ubuntu.update", fn |-> "install_docker_ubuntu_debian",
       cmd |-> "sudo apt-get update", wrapped |-> TRUE],
      [step |-> "ubuntu.prerequisites", fn |-> "install_docker_ubuntu_debian",
       cmd |-> "sudo apt-get install -y apt-transport-https ca-certificates curl gnupg lsb-release",
       wrapped |-> TRUE],
      [step |-> "ubuntu.curl", fn |-> "install_docker_ubuntu_debian",
       cmd |-> "curl -fsSL https://download.docker.com/linux/ubuntu/gpg -o tmp",
       wrapped |-> TRUE],
      [step |-> "ubuntu.dearmor", fn |-> "install_docker_ubuntu_debian",
       cmd |-> "sudo gpg --dearmor -o /usr/share/keyrings/docker-archive-keyring.gpg tmp",
       wrapped |-> TRUE],
      [step |-> "ubuntu.apt_key", fn |-> "install_docker_ubuntu_debian",
       cmd |-> "sudo apt-key add tmp", wrapped |-> TRUE],
      [step |-> "ubuntu.curl_again", fn |-> "install_docker_ubuntu_debian",
       cmd |-> "curl -fsSL https://download.docker.com/linux/ubuntu/gpg -o tmp",
       wrapped |-> TRUE],
      [step |-> "ubuntu.apt_key_again", fn |-> "install_docker_ubuntu_debian",
       cmd |-> "sudo apt-key add tmp", wrapped |-> TRUE],
      [step |-> "ubuntu.lsb_release", fn |-> "install_docker_ubuntu_debian",
       cmd |-> "lsb_release -cs", wrapped |-> FALSE],
      [step |-> "ubuntu.repository", fn |-> "install_docker_ubuntu_debian",
       cmd |-> "echo deb ... | sudo tee /etc/apt/sources.list.d/docker.list",
       wrapped |-> TRUE],
      [step |-> "ubuntu.update_again", fn |-> "install_docker_ubuntu_debian",
       cmd |-> "sudo apt-get update", wrapped |-> TRUE],
      [step |-> "ubuntu.install", fn |-> "install_docker_ubuntu_debian",
       cmd |-> "sudo apt-get install -y docker-ce docker-ce-cli containerd.io docker-compose-plugin",
       wrapped |-> TRUE],
      [step |-> "ubuntu.usermod", fn |-> "install_docker_ubuntu_debian",
       cmd |-> "sudo usermod -aG docker USER", wrapped |-> TRUE],
      [step |-> "centos.yum_utils", fn |-> "install_docker_centos_rhel_fedora",
       cmd |-> "sudo yum install -y yum-utils", wrapped |-> TRUE],
      [step |-> "centos.add_repo", fn |-> "install_docker_centos_rhel_fedora",
       cmd |-> "sudo yum-config-manager --add-repo https://download.docker.com/linux/centos/docker-ce.repo",
       wrapped |-> TRUE],
      [step |-> "centos.install", fn |-> "install_docker_centos_rhel_fedora",
       cmd |-> "sudo yum install -y docker-ce docker-ce-cli containerd.io docker-compose-plugin",
       wrapped |-> TRUE],
      [step |-> "centos.start", fn |-> "install_docker_centos_rhel_fedora",
       cmd |-> "sudo systemctl start docker", wrapped |-> TRUE],
      [step |-> "centos.enable", fn |-> "install_docker_centos_rhel_fedora",
       cmd |-> "sudo systemctl enable docker", wrapped |-> TRUE],
      [step |-> "centos.usermod", fn |-> "install_docker_centos_rhel_fedora",
       cmd |-> "sudo usermod -aG docker USER", wrapped |-> TRUE],
      [step |-> "arch.pacman", fn |-> "install_docker_arch",
       cmd |-> "sudo pacman -S --noconfirm docker docker-compose",
       wrapped |-> TRUE],
      [step |-> "arch.start", fn |-> "install_docker_arch",
       cmd |-> "sudo systemctl start docker", wrapped |-> TRUE],
      [step |-> "arch.enable", fn |-> "install_docker_arch",
       cmd |-> "sudo systemctl enable docker", wrapped |-> TRUE],
      [step |-> "arch.usermod", fn |-> "install_docker_arch",
       cmd |-> "sudo usermod -aG docker USER", wrapped |-> TRUE],
      [step |-> "macos.homebrew", fn |-> "install_docker_macos",
       cmd |-> "/bin/bash -c $(curl -fsSL https://raw.githubusercontent.com/Homebrew/install/HEAD/install.sh)",
       wrapped |-> TRUE],
      [step |-> "macos.cask", fn |-> "install_docker_macos",
       cmd |-> "brew install --cask docker", wrapped |-> TRUE],
      [step |-> "compose.plugin", fn |-> "check_docker_compose_installation",
       cmd |-> "docker compose version", wrapped |-> TRUE],
      [step |-> "compose.standalone", fn |-> "check_docker_compose_installation",
       cmd |-> "docker-compose --version", wrapped |-> TRUE],
      [step |-> "standalone.release", fn |-> "install_docker_compose_standalone",
       cmd |-> "GET https://api.github.com/repos/docker/compose/releases/latest",
       wrapped |-> FALSE],
      [step |-> "standalone.download", fn |-> "install_docker_compose_standalone",
       cmd |-> "GET https://github.com/docker/compose/releases/download/...",
       wrapped |-> FALSE],
      [step |-> "standalone.write", fn |-> "install_docker_compose_standalone",
       cmd |-> "write /usr/local/bin/docker-compose", wrapped |-> FALSE],
      [step |-> "verify.version", fn |-> "check_docker_installation",
       cmd |-> "docker --version", wrapped |-> TRUE],
      [step |-> "verify.info", fn |-> "check_docker_installation",
       cmd |-> "docker info", wrapped |-> TRUE],
      [step |-> "verify.plugin", fn |-> "check_docker_compose_installation",
       cmd |-> "docker compose version", wrapped |-> TRUE],
      [step |-> "verify.standalone", fn |-> "check_docker_compose_installation",
       cmd |-> "docker-compose --version", wrapped |-> TRUE]>>

StepNames == {Commands[i].step : i \in 1..Len(Commands)}

Command(step) ==
    Commands[CHOOSE i \in 1..Len(Commands) : Commands[i].step = step]

\* the functions that install docker, one per OS/distribution branch
InstallBranches ==
    {"install_docker_ubuntu_debian", "install_docker_centos_rhel_fedora",
     "install_docker_arch", "install_docker_macos"}

\* how an external interaction can end: exit status 0, a non-zero exit
\* status (for a download or a write: the error the code expects), or the
\* call itself raising (FileNotFoundError for a missing binary, another
\* OSError for the write)
CommandOutcomes == {"0", "nonzero", "raises"}

\* how the interaction `step` can end on a host that has `inst` installed: a
\* command whose binary is absent cannot be started; `docker compose` without
\* the plugin exits non-zero; the two downloads either succeed or fail
Outcomes(step, inst) ==
    IF step \in {"verify.version", "verify.info"}
    THEN IF "docker" \in inst THEN {"0", "nonzero"} ELSE {"raises"}
    ELSE IF step \in {"compose.plugin", "verify.plugin"}
    THEN IF "docker" \notin inst THEN {"raises"}
         ELSE IF "compose-plugin" \in inst THEN {"0", "nonzero"}
         ELSE {"nonzero"}
    ELSE IF step \in {"compose.standalone", "verify.standalone"}
    THEN IF "docker-compose" \in inst THEN {"0", "nonzero"} ELSE {"raises"}
    ELSE IF step = "macos.cask"
    THEN IF "brew" \in inst THEN {"0", "nonzero"} ELSE {"raises"}
    ELSE IF step \in {"standalone.release", "standalone.download"}
    THEN {"0", "nonzero"}
    ELSE CommandOutcomes

\* what a successful interaction leaves on the host
Installs(step) ==
    IF step \in {"ubuntu.install", "centos.install"}
    THEN {"docker", "compose-plugin"}
    ELSE IF step \in {"arch.pacman", "macos.cask"}
    THEN {"docker", "docker-compose", "compose-plugin"}
    ELSE IF step = "macos.homebrew" THEN {"brew"}
    ELSE IF step = "standalone.write" THEN {"docker-compose"}
    ELSE {}

\* where the run stands after a step: at the next interaction, or ended
Goto(step) == [pc |-> step, exit_code |-> NoExit]

\* main returns `code` and sys.exit(main()) ends the process (line 471)
Exit(code) == [pc |-> "done", exit_code |-> code]

\* install-docker.py 364-373: check_docker_installation up to its first
\* command; a False return makes main return 1 (427-432, 458-467)
check_docker_installation(inst) ==
    IF check_command_exists("docker", inst)
    THEN Goto("verify.version")
    ELSE Exit(1)

\* a bug check_docker_installation could have: the daemon-status query run
\* but its failure only warned about
AfterVerification_InfoIgnored(step, outcome, inst) ==
    LET ok == outcome = "0"
    IN  CASE step = "verify.version" -> IF ok THEN Goto("verify.info") ELSE Exit(1)
          [] step = "verify.info" -> Goto("verify.plugin")
          [] step = "verify.plugin" ->
                IF ok THEN Exit(0)
                ELSE IF check_command_exists("docker-compose", inst)
                THEN Goto("verify.standalone")
                ELSE Exit(1)
          [] step = "verify.standalone" -> IF ok THEN Exit(0) ELSE Exit(1)

\* main 427-432 and 458-467: check_docker_installation 376-391 followed by
\* check_docker_compose_installation 398-411; main returns 0 when both
\* returned True and 1 otherwise
AfterVerification(step, outcome, inst) ==
    LET ok == outcome = "0"
    IN  CASE step = "verify.version" -> IF ok THEN Goto("verify.info") ELSE Exit(1)
          [] step = "verify.info" -> IF ok THEN Goto("verify.plugin") ELSE Exit(1)
          [] step = "verify.plugin" ->
                IF ok THEN Exit(0)
                ELSE IF check_command_exists("docker-compose", inst)
                THEN Goto("verify.standalone")
                ELSE Exit(1)
          [] step = "verify.standalone" -> IF ok THEN Exit(0) ELSE Exit(1)

\* the control flow of the script after the interaction `step` ended with
\* `outcome`, `inst` being what is installed then. run_command returns
\* success exactly for exit status 0 (68-88); nearly every caller returns
\* False on failure, on which main returns 1. An exception that leaves main
\* is printed by the entry point, which exits 1 (475-477)
After(step, outcome, inst) ==
    LET ok == outcome = "0"
        Then(next) == IF ok THEN Goto(next) ELSE Exit(1)
    IN  CASE step = "ubuntu.update" -> Then("ubuntu.prerequisites")
          [] step = "ubuntu.prerequisites" -> Then("ubuntu.curl")
          \* 151-170: the key import falls back to apt-key, downloading again
          \* when the download was what failed
          [] step = "ubuntu.curl" ->
                IF ok THEN Goto("ubuntu.dearmor") ELSE Goto("ubuntu.curl_again")
          [] step = "ubuntu.dearmor" ->
                IF ok THEN Goto("ubuntu.lsb_release") ELSE Goto("ubuntu.apt_key")
          [] step = "ubuntu.apt_key" -> Then("ubuntu.lsb_release")
          [] step = "ubuntu.curl_again" -> Then("ubuntu.apt_key_again")
          [] step = "ubuntu.apt_key_again" -> Then("ubuntu.lsb_release")
          \* 179: subprocess.run without check; only the stdout is used
          [] step = "ubuntu.lsb_release" ->
                IF outcome = "raises" THEN Exit(1) ELSE Goto("ubuntu.repository")
          [] step = "ubuntu.repository" -> Then("ubuntu.update_again")
          [] step = "ubuntu.update_again" -> Then("ubuntu.install")
          [] step = "ubuntu.install" -> Then("ubuntu.usermod")
          [] step = "ubuntu.usermod" -> Then("compose.plugin")
          [] step = "centos.yum_utils" -> Then("centos.add_repo")
          [] step = "centos.add_repo" -> Then("centos.install")
          [] step = "centos.install" -> Then("centos.start")
          [] step = "centos.start" -> Then("centos.enable")
          [] step = "centos.enable" -> Then("centos.usermod")
          [] step = "centos.usermod" -> Then("compose.plugin")
          [] step = "arch.pacman" -> Then("arch.start")
          [] step = "arch.start" -> Then("arch.enable")
          [] step = "arch.enable" -> Then("arch.usermod")
          [] step = "arch.usermod" -> Then("compose.plugin")
          [] step = "macos.homebrew" -> Then("macos.cask")
          [] step = "macos.cask" ->
                IF ok THEN check_docker_installation(inst) ELSE Exit(1)
          \* main 440-441 with check_docker_compose_installation 398-411
          [] step = "compose.plugin" ->
                IF ok THEN check_docker_installation(inst)
                ELSE IF check_command_exists("docker-compose", inst)
                THEN Goto("compose.standalone")
                ELSE Goto("standalone.release")
          [] step = "compose.standalone" ->
                IF ok THEN check_docker_installation(inst)
                ELSE Goto("standalone.release")
          [] step = "standalone.download" -> Then("standalone.write")
          [] step = "standalone.write" ->
                IF ok THEN check_docker_installation(inst) ELSE Exit(1)
          [] OTHER -> AfterVerification(step, outcome, inst)

\* /etc/os-release as get_linux_distro meets it: absent, not readable, or
\* its lines, each with its line terminator when it has one
OsReleaseFiles ==
    {[open |-> "absent"], [open |-> "denied"],
        [open |-> "ok", lines |->
          <<<<"N", "A", "M", "E", "=", "\"", "U", "b", "u", "n", "t", "u", "\"", "\n">>,
            <<"I", "D", "=", "u", "b", "u", "n", "t", "u", "\n">>,
            <<"I", "D", "_", "L", "I", "K", "E", "=", "d", "e", "b", "i", "a", "n", "\n">>>>],
        [open |-> "ok", lines |->
          <<<<"I", "D", "=", "d", "e", "b", "i", "a", "n", "\n">>>>],
        [open |-> "ok", lines |->
          <<<<"N", "A", "M", "E", "=", "\"", "C", "e", "n", "t", "O", "S", " ", "L", "i", "n", "u", "x", "\"", "\n">>,
            <<"I", "D", "=", "\"", "c", "e", "n", "t", "o", "s", "\"", "\n">>,
            <<"I", "D", "_", "L", "I", "K", "E", "=", "\"", "r", "h", "e", "l", " ", "f", "e", "d", "o", "r", "a", "\"", "\n">>>>],
        [open |-> "ok", lines |->
          <<<<"I", "D", "=", "\"", "r", "h", "e", "l", "\"", "\n">>>>],
        [open |-> "ok", lines |->
          <<<<"I", "D", "=", "f", "e", "d", "o", "r", "a", "\n">>,
            <<"V", "E", "R", "S", "I", "O", "N", "_", "I", "D", "=", "4", "0", "\n">>>>],
        [open |-> "ok", lines |->
          <<<<"I", "D", "=", "a", "r", "c", "h">>>>],
        [open |-> "ok", lines |->
          <<<<"I", "D", "=", "l", "i", "n", "u", "x", "m", "i", "n", "t", "\n">>,
            <<"I", "D", "_", "L", "I", "K", "E", "=", "u", "b", "u", "n", "t", "u", "\n">>>>],
        [open |-> "ok", lines |->
          <<<<"I", "D", "_", "L", "I", "K", "E", "=", "d", "e", "b", "i", "a", "n", "\n">>,
            <<"V", "E", "R", "S", "I", "O", "N", "_", "I", "D", "=", "\"", "1", "2", "\"", "\n">>>>],
        [open |-> "ok", lines |->
          <<>>]}

MarkerFiles == {"/etc/debian_version", "/etc/redhat-release", "/etc/arch-release"}

\* line.startswith(prefix)
StartsWith(line, prefix) ==
    Len(line) >= Len(prefix) /\ SubSeq(line, 1, Len(prefix)) = prefix

\* text.strip('"')
RECURSIVE StripQuotes(_)
StripQuotes(text) ==
    IF text # <<>> /\ Head(text) = "\"" THEN StripQuotes(Tail(text))
    ELSE IF text # <<>> /\ text[Len(text)] = "\""
    THEN StripQuotes(SubSeq(text, 1, Len(text) - 1))
    ELSE text

\* the string a sequence of characters spells
RECURSIVE Text(_)
Text(chars) == IF chars = <<>> THEN "" ELSE Head(chars) \o Text(Tail(chars))

\* a bug get_linux_distro could have: the arch marker looked for before the
\* redhat marker
get_linux_distro_ArchFirst(os_release, markers) ==
    LET ids == IF os_release.open = "ok"
               THEN SelectSeq(os_release.lines,
                              LAMBDA line : StartsWith(line, <<"I", "D", "=">>))
               ELSE <<>>
    IN  IF ids # <<>> THEN Text(StripQuotes(Strip(Split(Head(ids), "=")[2])))
        ELSE IF "/etc/debian_version" \in markers THEN "debian"
        ELSE IF "/etc/arch-release" \in markers THEN "arch"
        ELSE IF "/etc/redhat-release" \in markers THEN "rhel"
        ELSE "unknown"

\* install-docker.py 94-112: the first line of the file that starts with
\* ID= decides; a file that cannot be opened raises inside the try, whose
\* bare `except: pass` leads to the marker files
get_linux_distro(os_release, markers) ==
    LET ids == IF os_release.open = "ok"
               THEN SelectSeq(os_release.lines,
                              LAMBDA line : StartsWith(line, <<"I", "D", "=">>))
               ELSE <<>>
    IN  IF ids # <<>> THEN Text(StripQuotes(Strip(Split(Head(ids), "=")[2])))
        ELSE IF "/etc/debian_version" \in markers THEN "debian"
        ELSE IF "/etc/redhat-release" \in markers THEN "rhel"
        ELSE IF "/etc/arch-release" \in markers THEN "arch"
        ELSE "unknown"

\* install-docker.py 114-128: the branch of the distribution, up to its
\* first command; an unsupported distribution makes it return False, on
\* which main returns 1 (436-437)
install_docker_linux(distro) ==
    IF distro \in {"ubuntu", "debian"} THEN Goto("ubuntu.update")
    ELSE IF distro \in {"centos", "rhel", "fedora"} THEN Goto("centos.yum_utils")
    ELSE IF distro = "arch" THEN Goto("arch.pacman")
    ELSE Exit(1)

\* install-docker.py 271-284, up to its first command
install_docker_macos(inst) ==
    IF check_command_exists("brew", inst)
    THEN Goto("macos.cask")
    ELSE Goto("macos.homebrew")

\* install-docker.py 295-312 and main 449-458: nothing is run; with docker
\* on PATH main goes on to the final verification, else it returns 1
install_docker_windows(inst) ==
    IF check_command_exists("docker", inst)
    THEN check_docker_installation(inst)
    ELSE Exit(1)

\* main 413-454, up to the first external interaction
InstallerMain ==
    /\ pc = "installer"
    /\ \E system \in Systems, os_release \in OsReleaseFiles,
          markers \in SUBSET MarkerFiles :
          LET docker_installed == check_command_exists("docker", installed)
              compose_installed ==
                  \/ check_command_exists("docker-compose", installed)
                  \/ check_command_exists("docker compose", installed)
              skip == docker_installed /\ compose_installed
              distro == get_linux_distro(os_release, markers)
              to == IF skip THEN check_docker_installation(installed)
                    ELSE IF system = "linux" THEN install_docker_linux(distro)
                    ELSE IF system = "darwin" THEN install_docker_macos(installed)
                    ELSE IF system = "windows"
                    THEN install_docker_windows(installed)
                    ELSE Exit(1)
          IN  /\ pc' = to.pc
              /\ exit_code' = to.exit_code
              /\ detected' = IF ~skip /\ system = "linux"
                             THEN [system |-> system, distro |-> distro,
                                   os_release |-> os_release,
                                   markers |-> markers]
                             ELSE [system |-> system]
    /\ UNCHANGED <<installed, invoked>>
    /\ UNCHANGED <<precheckVars, wizardVars>>

\* one external command, download or write, and the code that follows it up
\* to the next one
RunCommand ==
    /\ pc \in StepNames \ {"standalone.release"}
    /\ \E outcome \in Outcomes(pc, installed) :
          /\ installed' = IF outcome = "0"
                          THEN installed \cup Installs(pc)
                          ELSE installed
          /\ invoked' = Append(invoked, [step |-> pc, outcome |-> outcome])
          /\ LET to == After(pc, outcome, installed')
             IN  pc' = to.pc /\ exit_code' = to.exit_code
    /\ UNCHANGED detected
    /\ UNCHANGED <<precheckVars, wizardVars>>

\* platform.machine()
Machines == {"x86_64", "aarch64", "arm64", "armv7l"}

\* install_docker_compose_standalone 314-339: the query for the latest
\* release, whose every failure is replaced by the version v2.24.0, then the
\* test of the architecture
LatestRelease ==
    /\ pc = "standalone.release"
    /\ \E outcome \in Outcomes(pc, installed), arch \in Machines :
          /\ invoked' = Append(invoked, [step |-> pc, outcome |-> outcome])
          /\ detected' = Update(detected, [arch |-> arch])
          /\ LET to == IF arch \in {"x86_64", "aarch64", "arm64"}
                       THEN Goto("standalone.download")
                       ELSE Exit(1)
             IN  pc' = to.pc /\ exit_code' = to.exit_code
    /\ UNCHANGED installed
    /\ UNCHANGED <<precheckVars, wizardVars>>

\* the entry point 469-474: Ctrl-C during an interaction raises
\* KeyboardInterrupt, which run_command's `except Exception` lets through
\* and the entry point answers with exit status 1. During the two downloads
\* the bare `except:` of 323 and 344 takes it for a failed download
InstallerInterrupt ==
    /\ pc \in StepNames \ {"standalone.release", "standalone.download"}
    /\ pc' = "done"
    /\ exit_code' = 1
    /\ UNCHANGED <<precheckVars, wizardVars, installerVars>>

\* the state when main of install-docker.py is entered
InitInstaller ==
    /\ pc = "installer"
    /\ exit_code = NoExit
    /\ PreCheckIdle
    /\ WizardIdle
    /\ installed \in SUBSET Tools
    /\ invoked = <<>>
    /\ detected = <<>>

NextInstaller ==
    \/ InstallerMain
    \/ RunCommand
    \/ LatestRelease
    \/ InstallerInterrupt

\* one run of install-docker.py
SpecInstaller == InitInstaller /\ [][NextInstaller]_vars

(***************************************************************************)
(* Claims about the hardware scorer, checked under SpecScore.              *)
(***************************************************************************)
Ranked == ranking.done

\* C1 as the specification states it: the CPU score is monotonically
\* non-decreasing in the core count, and 8 cores give 80, 15 cores give 60,
\* 16 cores give 100.
C1_AsStated ==
    Ranked =>
        /\ \A c \in CoreCounts :
              c <= cpu_info.physical_cores => CpuScore(c) <= ranking.cpu_score
        /\ (cpu_info.physical_cores = 8 => ranking.cpu_score = 80)
        /\ (cpu_info.physical_cores = 15 => ranking.cpu_score = 60)
        /\ (cpu_info.physical_cores = 16 => ranking.cpu_score = 100)

\* C1 (amended): the CPU score is monotonically non-decreasing in the core
\* count, and 8 cores give 80, 15 cores give 80 (the bucket 8 <= c < 16),
\* 16 cores give 100.
C1_CpuMonotone ==
    Ranked =>
        /\ \A c \in CoreCounts :
              c <= cpu_info.physical_cores => CpuScore(c) <= ranking.cpu_score
        /\ (cpu_info.physical_cores = 8 => ranking.cpu_score = 80)
        /\ (cpu_info.physical_cores = 15 => ranking.cpu_score = 80)
        /\ (cpu_info.physical_cores = 16 => ranking.cpu_score = 100)

C1_Witness == Ranked /\ cpu_info.physical_cores = 15 /\ ranking.cpu_score = 80

\* C2: the CPU score is the step function 20 for c < 2, 40 for 2 <= c < 4,
\* 60 for 4 <= c < 8, 80 for 8 <= c < 16, 100 for c >= 16, and no other
\* score value is ever produced.
C2_CpuStepFunction ==
    Ranked =>
        LET c == cpu_info.physical_cores
            s == ranking.cpu_score
        IN  /\ s \in {20, 40, 60, 80, 100}
            /\ (s = 20) = (c < 2)
            /\ (s = 40) = (2 <= c /\ c < 4)
            /\ (s = 60) = (4 <= c /\ c < 8)
            /\ (s = 80) = (8 <= c /\ c < 16)
            /\ (s = 100) = (c >= 16)

C2_Witness == Ranked /\ cpu_info.physical_cores = 1 /\ ranking.cpu_score = 20

\* C3: the memory score is the step function of total memory with
\* breakpoints 4, 8, 16, 32, 64 GiB mapping to 10, 30, 50, 70, 90, 100, each
\* breakpoint belonging to the higher bucket: exactly 16 GiB scores 70 and
\* one KiB less scores 50.
C3_MemoryStepFunction ==
    Ranked =>
        LET m == memory_info.total_kib
            s == ranking.memory_score
        IN  /\ (s = 10) = (m < 4 * GiB)
            /\ (s = 30) = (4 * GiB <= m /\ m < 8 * GiB)
            /\ (s = 50) = (8 * GiB <= m /\ m < 16 * GiB)
            /\ (s = 70) = (16 * GiB <= m /\ m < 32 * GiB)
            /\ (s = 90) = (32 * GiB <= m /\ m < 64 * GiB)
            /\ (s = 100) = (m >= 64 * GiB)
            /\ (m = 16 * GiB => s = 70)
            /\ (m = 16 * GiB - 1 => s = 50)

C3_Witness == Ranked /\ memory_info.total_kib = 16 * GiB /\ ranking.memory_score = 70

\* C4: the overall score is the unweighted arithmetic mean of the three
\* component scores, and the tier label is decided by the overall score alone:
\* >= 90 Excellent, >= 75 Very Good, >= 60 Good, >= 45 Fair (exactly 45 is
\* Fair), otherwise Poor.
C4_MeanAndTier ==
    Ranked =>
        LET o == ranking.overall_score
            sum == ranking.cpu_score + ranking.memory_score + ranking.storage_score
            r == ranking.overall_rating
        IN  /\ o.den > 0
            /\ 3 * o.num = sum * o.den
            /\ (r = "Excellent") = (sum >= 3 * 90)
            /\ (r = "Very Good") = (3 * 75 <= sum /\ sum < 3 * 90)
            /\ (r = "Good") = (3 * 60 <= sum /\ sum < 3 * 75)
            /\ (r = "Fair") = (3 * 45 <= sum /\ sum < 3 * 60)
            /\ (r = "Poor") = (sum < 3 * 45)
            /\ OverallRating([num |-> 45, den |-> 1]) = "Fair"
            /\ OverallRating([num |-> 44999, den |-> 1000]) = "Poor"

C4_Witness ==
    /\ Ranked
    /\ ranking.overall_rating = "Fair"
    /\ ranking.cpu_score = 60 /\ ranking.memory_score = 50
    /\ ranking.storage_score = 40

\* the detection failed on the host: the disk usage could not be read, the
\* platform has no detection, the tool is missing or exited non-zero, or its
\* output names no known medium (on Linux: no device line, and no NVMe
\* device node either)
DetectionFailed(host) ==
    \/ host.disk_usage = "raises"
    \/ host.system \notin {"Linux", "Darwin", "Windows"}
    \/ /\ host.system = "Linux"
       /\ ~host.nvme0n1
       /\ host.run # "0" \/ lsblk_type(host.stdout) = "Unknown"
    \/ /\ host.system \in {"Darwin", "Windows"}
       /\ host.run # "0" \/ host.stdout = {}

\* C23: whenever the storage detection fails (tool missing, non-zero exit,
\* exception, output that matches no known medium) the detected medium is
\* `Unknown`, never a guessed medium, and the scorer gives it storage score
\* 20; NVMe SSD scores 100, SSD 80 and HDD 40.
C23_AsStated ==
    /\ (probe.name = "storage" /\ DetectionFailed(probe.obs)) =>
          /\ storage_info.type = "Unknown"
          /\ Ranked => ranking.storage_score = 20
    /\ (probe.name = "storage" /\ Ranked) =>
          ranking.storage_score =
              CASE storage_info.type = "NVMe SSD" -> 100
                [] storage_info.type = "SSD" -> 80
                [] storage_info.type = "HDD" -> 40
                [] OTHER -> 20

(***************************************************************************)
(* Claims about the requirement checker, checked under SpecPreCheck.       *)
(***************************************************************************)
ProbePhaseOver == pc \in {"Hardware", "report", "done", "crashed"}

\* C10: a failing probe never prevents another probe from running. Whatever
\* the earlier probes returned, every probe before the current position has
\* run and recorded its own result; once the probe phase is over all nine
\* have, and the hardware analysis has been entered (it records its result
\* unless the core count is None); the file and port probes examine every
\* listed file and port, also after one of them failed.
C10_ProbeIsolation ==
    /\ \A i \in 1..Len(ProbeOrder) :
          (ProbePhaseOver \/ (pc \in Range(ProbeOrder) /\ i < ProbeIndex(pc)))
              => ProbeOrder[i] \in DOMAIN results
    /\ pc \in {"report", "done"} =>
          /\ "Hardware" \in DOMAIN results
          /\ results["Hardware"] = HardwareAdequate(ranking.overall_score)
    /\ pc = "crashed" => cpu_info.physical_cores = NoneCores
    /\ probe.name = "Required Files" =>
          /\ probe.obs.examined = required_files
          /\ results["Required Files"] =
                 (Range(required_files) \subseteq probe.obs.present)
    /\ probe.name = "Ports" =>
          /\ probe.obs.examined = required_ports
          /\ results["Ports"] = (Range(required_ports) \subseteq probe.obs.free)

\* a required file is absent, the Required Files check alone fails and the
\* nine other checks ran and passed
C10_Witness ==
    /\ pc = "done"
    /\ DOMAIN results = Range(ProbeOrder) \cup {"Hardware"}
    /\ \A n \in DOMAIN results : results[n] = (n # "Required Files")

\* the ten results main collects: the nine probes and 'Hardware'
AllCollected ==
    /\ DOMAIN results = Range(ProbeOrder) \cup {"Hardware"}
    /\ Cardinality(DOMAIN results) = Len(ProbeOrder) + 1

\* C11: the run exits with code 0 if and only if every collected result is
\* true, the collected results being the nine probes plus the hardware
\* result, and the hardware result being true exactly when the overall score
\* is at least 45; a run that reaches the report with some result false exits
\* with code 1; the pass count of the report is the number of true results
\* and its total is ten.
C11_Aggregation ==
    /\ exit_code = 0 => AllCollected /\ \A n \in DOMAIN results : results[n]
    /\ report.printed =>
          /\ pc = "done" /\ AllCollected
          /\ exit_code = IF \A n \in DOMAIN results : results[n] THEN 0 ELSE 1
          /\ report.passed = Cardinality({n \in DOMAIN results : results[n]})
          /\ report.total = Len(ProbeOrder) + 1
          /\ report.success = (exit_code = 0)
    /\ "Hardware" \in DOMAIN results =>
          results["Hardware"] =
              (ranking.overall_score.num >= 45 * ranking.overall_score.den)

\* every probe passed and the hardware alone is inadequate: nine of ten, exit 1
C11_Witness ==
    /\ pc = "done" /\ report.printed /\ exit_code = 1
    /\ report.passed = Len(ProbeOrder)
    /\ ~results["Hardware"]

\* C13: an operator interrupt arriving at any point of a pre-check run is
\* caught by the entry point and turned into a clean exit with code 1: no run
\* is ended by a KeyboardInterrupt that nothing caught, and a run the
\* operator interrupted has exit code 1.
C13_AsStated ==
    /\ pc # "interrupted"
    /\ exit_code \in {NoExit, 0, 1}

\* C18: the Docker probe passes only if the docker binary is on PATH, the
\* version sub-command exits 0 and the daemon-status sub-command
\* (docker info) also succeeds within the timeout; when docker info exits
\* non-zero the probe result is false.
C18_AsStated ==
    probe.name = "Docker" =>
        /\ probe.ok =>
              /\ probe.obs.which
              /\ probe.obs.version = "0"
              /\ probe.obs.info = "0"
        /\ (/\ probe.obs.which
            /\ probe.obs.version = "0"
            /\ probe.obs.info = "nonzero") => ~results["Docker"]

\* version order: (major, minor) compared lexicographically
VersionAtLeast(version, major, minor) ==
    \/ version.major > major
    \/ version.major = major /\ version.minor >= minor

\* C19: for every interpreter version (major, minor) the Python probe passes
\* if and only if the version is at least 3.6 in version order, so that 3.6,
\* 3.12 and 4.0 pass and 3.5 and 2.7 fail.
C19_AsStated ==
    probe.name = "Python" =>
        /\ probe.ok = VersionAtLeast(probe.obs, 3, 6)
        /\ results["Python"] = probe.ok

\* C25: the Network probe returns true whenever the DNS resolution of the
\* hostname succeeded, whether the HTTPS probe that follows succeeded, failed
\* or timed out, and false whenever the DNS resolution failed.
C25_NetworkProbe ==
    probe.name = "Network" =>
        /\ probe.ok = (probe.obs.dns = "ok")
        /\ results["Network"] = (probe.obs.dns = "ok")

\* the name resolved, the HTTPS probe timed out, and the Network check passed
C25_Witness ==
    /\ probe.name = "Network"
    /\ probe.obs = [dns |-> "ok", https |-> "timeout"]
    /\ results["Network"]
    /\ pc = "done"

\* the port numbers the wizard offers as defaults and writes when they are
\* accepted
DefaultPorts ==
    {IntLiteral(Prompts[PromptIndex(PortKeys[i])].default).value :
        i \in 1..Len(PortKeys)}

\* C29: every default port of the wizard (P2P 16111, gRPC 16110, wRPC Borsh
\* 17110, wRPC JSON 18110) is among the ports the Ports probe tests: when
\* the Ports probe passed, all four default ports were free at probe time.
C29_AsStated ==
    (probe.name = "Ports" /\ probe.ok) =>
        /\ DefaultPorts \subseteq Range(probe.obs.examined)
        /\ DefaultPorts \subseteq probe.obs.free

(***************************************************************************)
(* Claims about the wizard, checked under SpecWizard.                      *)
(***************************************************************************)
\* the file of default values: every key of the template with the default
\* its prompt offers
DefaultEnvLines(data_dir) ==
    <<[key |-> "SERVICE_NAME", value |-> <<"r", "e", "s", "e", "a", "r", "c", "h", "-", "p", "a", "d">>],
      [key |-> "CONTAINER_NAME", value |-> <<"k", "a", "s", "p", "a", "-", "n", "o", "d", "e">>],
      [key |-> "IMAGE_NAME", value |-> <<"l", "o", "c", "a", "l", "/", "r", "e", "s", "e", "a", "r", "c", "h", "-", "p", "a", "d">>],
      [key |-> "IMAGE_TAG", value |-> <<"l", "a", "t", "e", "s", "t">>],
      [key |-> "P2P_PORT", value |-> <<"1", "6", "1", "1", "1">>],
      [key |-> "GRPC_PORT", value |-> <<"1", "6", "1", "1", "0">>],
      [key |-> "WRPC_BORSH_PORT", value |-> <<"1", "7", "1", "1", "0">>],
      [key |-> "WRPC_JSON_PORT", value |-> <<"1", "8", "1", "1", "0">>],
      [key |-> "EXTERNAL_IP", value |-> <<"0", ".", "0", ".", "0", ".", "0">>],
      [key |-> "DATA_VOLUME_PATH", value |-> data_dir],
      [key |-> "APP_DATA_PATH", value |-> <<"/", "a", "p", "p", "/", "d", "a", "t", "a">>],
      [key |-> "DNS_PRIMARY", value |-> <<"8", ".", "8", ".", "8", ".", "8">>],
      [key |-> "DNS_SECONDARY", value |-> <<"1", ".", "1", ".", "1", ".", "1">>],
      [key |-> "USER_ID", value |-> <<"0">>],
      [key |-> "GROUP_ID", value |-> <<"0">>],
      [key |-> "ULIMIT_SOFT", value |-> <<"1", "0", "4", "8", "5", "7", "6">>],
      [key |-> "ULIMIT_HARD", value |-> <<"1", "0", "4", "8", "5", "7", "6">>],
      [key |-> "HEALTH_CHECK_INTERVAL", value |-> <<"3", "0", "s">>],
      [key |-> "HEALTH_CHECK_TIMEOUT", value |-> <<"5", "s">>],
      [key |-> "HEALTH_CHECK_RETRIES", value |-> <<"2", "0">>],
      [key |-> "HEALTH_CHECK_START_PERIOD", value |-> <<"6", "0", "s">>],
      [key |-> "PEERS", value |-> <<"5", "1", ".", "7", "9", ".", "2", "4", ".", "8", "2", ":", "1", "6", "1", "1", "1", ",", "1", "6", "2", ".", "5", "5", ".", "1", "0", "0", ".", "1", "2", "4", ":", "1", "6", "1", "1", "1">>]>>

\* the session was ended by Ctrl-C
Interrupted == pc = "done" /\ exit_code = 1 /\ prompted # "press_enter_missing"
                   /\ prompted # "press_enter_error"

\* C5: when the operator answers every prompt with empty input, the file that
\* is written holds exactly the default value of every key (ports
\* 16111/16110/17110/18110, external IP 0.0.0.0, container name kaspa-node, ...).
C5_AllDefaults ==
    (typed = 0 /\ saved = "written") =>
        /\ env_file.exists
        /\ env_file.lines =
               DefaultEnvLines(IF machine.os = "Windows"
                               THEN <<".", "\\", "k", "a", "s", "p", "a", "-", "d", "a", "t", "a">>
                               ELSE <<".", "/", "k", "a", "s", "p", "a", "-", "d", "a", "t", "a">>)

C5_Witness ==
    /\ typed = 0 /\ saved = "written" /\ pc = "done" /\ exit_code = 0
    /\ env_file.lines[5] = [key |-> "P2P_PORT", value |-> <<"1", "6", "1", "1", "1">>]

\* C6: when .env already exists and the operator declines the overwrite
\* confirmation (any answer other than y/Y, the empty answer included), the
\* existing file is left unchanged; nothing is written before the question
\* is answered.
C6_OverwriteProtection ==
    /\ pc = "overwrite" => env_file = OldEnvFile
    /\ saved = "declined" => env_file = OldEnvFile
    /\ prompted = "overwrite" =>
          (saved = "declined") = (Strip(user_input) \notin {<<"y">>, <<"Y">>})

C6_Witness ==
    /\ pc = "done" /\ saved = "declined" /\ env_file = OldEnvFile
    /\ typed = 0

\* the text denotes an integer in [1,65535]
DenotesPort(text) ==
    LET n == IntLiteral(text) IN n.ok /\ 1 <= n.value /\ n.value <= 65535

\* C7: at a port prompt a non-empty answer that is not an integer in
\* [1,65535] is never accepted as the port value: the same prompt is shown
\* again (unless the operator interrupts), and no port value held by the
\* wizard is outside [1,65535].
C7_PortReprompt ==
    /\ (/\ prompted \in Range(PortKeys)
        /\ Strip(user_input) # <<>>
        /\ ~DenotesPort(Strip(user_input)))
          => /\ pc = prompted \/ Interrupted
             /\ prompted \notin DOMAIN locals
    /\ \A i \in 1..Len(PortKeys) :
          /\ PortKeys[i] \in DOMAIN locals => DenotesPort(locals[PortKeys[i]])
          /\ PortKeys[i] \in DOMAIN config => DenotesPort(config[PortKeys[i]])

C7_Witness ==
    /\ prompted = "P2P_PORT" /\ pc = "P2P_PORT"
    /\ user_input = <<"7", "0", "0", "0", "0">>
    /\ "P2P_PORT" \notin DOMAIN locals

\* four dot-separated decimal numbers, each in 0..255
IsDottedQuad(text) ==
    LET parts == Split(text, ".")
    IN  /\ Len(parts) = 4
        /\ \A i \in 1..4 :
              /\ parts[i] # <<>>
              /\ \A j \in 1..Len(parts[i]) : parts[i][j] \in Range(DigitChars)
              /\ DigitsValue(parts[i], 10) <= 255

\* C8: at the external-IP prompt a non-empty answer is accepted only if it is
\* a dotted quad (four dot-separated decimal octets, each in 0..255); any
\* other answer causes a re-prompt.
C8_AsStated ==
    /\ (/\ prompted = "EXTERNAL_IP"
        /\ Strip(user_input) # <<>>
        /\ ~IsDottedQuad(Strip(user_input)))
          => pc = "EXTERNAL_IP" \/ Interrupted
    /\ "EXTERNAL_IP" \in DOMAIN config => IsDottedQuad(config["EXTERNAL_IP"])

\* the parent directory of the path exists
ParentExists(path_str) ==
    Parent(path_str, PathSeps(machine.os)) \in ExistingDirs

\* C9: at the data-directory prompt a non-empty answer whose parent directory
\* does not exist is rejected and the prompt is repeated; such a path is never
\* stored in the answers or written to the file.
C9_AsStated ==
    /\ (/\ prompted = "DATA_VOLUME_PATH"
        /\ Strip(user_input) # <<>>
        /\ ~ParentExists(Strip(user_input)))
          => pc = "DATA_VOLUME_PATH" \/ Interrupted
    /\ "DATA_VOLUME_PATH" \in DOMAIN locals =>
          ParentExists(locals["DATA_VOLUME_PATH"])
    /\ "DATA_VOLUME_PATH" \in DOMAIN config =>
          ParentExists(config["DATA_VOLUME_PATH"])
    /\ saved = "written" => ParentExists(env_file.lines[10].value)

\* the port numbers the operator chose, in the order they are probed
ChosenPorts(answers) ==
    [i \in 1..Len(PortKeys) |-> IntLiteral(answers[PortKeys[i]]).value]

\* C20: probing a port reports it available exactly when the loopback bind
\* succeeds and in use exactly when it fails, and the probe releases its
\* socket before it returns: the wizard holds no bound socket after a check;
\* the ports it lists as in use are, in order and with repetitions, exactly
\* the chosen ports another process holds, so that a port chosen twice is
\* reported the same way both times; when it lists none, no chosen port is
\* held by another process.
C20_PortProbe ==
    /\ bound.own = {}
    /\ pc = "continue_anyway" =>
          /\ unavailable_ports =
                 SelectSeq([i \in 1..Len(PortKeys) |-> locals[PortKeys[i]]],
                           LAMBDA port : IntLiteral(port).value \in bound.others)
          /\ unavailable_ports # <<>>
    /\ (prompted = "EXTERNAL_IP" /\ pc = AfterPrompt("EXTERNAL_IP")) =>
          \A i \in 1..Len(PortKeys) : ChosenPorts(config)[i] \notin bound.others

\* the operator chose port 80 for both the P2P and the gRPC port, nothing
\* else holds it, and both probes found it available
C20_Witness ==
    /\ pc = AfterPrompt("EXTERNAL_IP") /\ prompted = "EXTERNAL_IP"
    /\ config["P2P_PORT"] = <<"8", "0">>
    /\ config["GRPC_PORT"] = <<"8", "0">>
    /\ unavailable_ports = <<>>
    /\ bound = NoSockets

\* C12: the wizard exits with code 0 only when the configuration was saved,
\* and with code 1 whenever it was not: the operator declined to save,
\* declined the overwrite, the file write failed, or the session was
\* cancelled or failed earlier.
C12_AsStated ==
    /\ exit_code = 0 => saved = "written"
    /\ (pc = "done" /\ saved \in {"cancelled", "declined", "failed"}) =>
          exit_code = 1

\* the availability check of the chosen ports has been performed
PortsChecked ==
    \/ pc = "continue_anyway"
    \/ prompted \in {"EXTERNAL_IP", "continue_anyway"} /\ pc # prompted
           /\ ~Interrupted

\* C21: the availability check of the four chosen ports is performed only
\* after every configuration group (network, container, data, system,
\* resource limits, health check) has been answered; when a chosen port is
\* occupied the operator is asked for confirmation and, whatever the answer,
\* is not sent back to the port prompts.
C21_AsStated ==
    /\ PortsChecked =>
          \A key \in PromptKeys : key \in DOMAIN config \cup DOMAIN locals
    /\ prompted = "continue_anyway" => pc \notin Range(PortKeys)

\* C22: the output file is written only after every configuration group has
\* completed and the operator has confirmed saving (and the overwrite, when
\* the file exists), nothing is persisted before that point, and the file is
\* never partially updated: at every moment it is either what the session
\* found (absent, or the earlier file) or the complete rendering of the
\* answers.
C22_AsStated ==
    /\ \/ env_file \in {NoFile, OldEnvFile}
       \/ env_file = [exists |-> TRUE, lines |-> Render(config)]
    /\ env_file \notin {NoFile, OldEnvFile} =>
          /\ \A key \in PromptKeys : key \in DOMAIN config
          /\ prompted \in {"save", "overwrite", "press_enter"}
          /\ saved = "written"
    /\ pc \in PromptKeys \cup {"wizard", "continue_anyway", "save", "overwrite"}
          => env_file \in {NoFile, OldEnvFile}

\* the prompts a session at position `at` has still to answer before its
\* exit when no network prompt is asked again
PromptsLeft(at) ==
    CASE at \in {"done", "interrupted"} -> 0
      [] at \in {"press_enter", "press_enter_missing", "press_enter_error"} -> 1
      [] at = "overwrite" -> 2
      [] at = "save" -> 3
      [] at = "continue_anyway" ->
            4 + Len(Prompts) - PromptIndex("EXTERNAL_IP")
      [] at \in PromptKeys ->
            4 + Len(Prompts) - PromptIndex(at)
              + (IF PromptIndex(at) <= PromptIndex("EXTERNAL_IP") THEN 1 ELSE 0)
      [] at = "wizard" -> 6 + Len(Prompts)

\* a bound on the prompts the session has still to answer: the prompts left
\* at its position, and for every nested call of network_configuration that
\* is still possible the prompts of the network group and its confirmation
Variant ==
    PromptsLeft(pc)
      + (IF pc = "wizard" \/ pc = "continue_anyway"
            \/ (pc \in PromptKeys
                  /\ PromptIndex(pc) <= PromptIndex("EXTERNAL_IP"))
         THEN (MaxDepth - depth) * (PromptIndex("EXTERNAL_IP") + 1)
         ELSE 0)

\* C27: a session in which every prompt is answered with the empty line
\* reaches its exit after finitely many prompts, whatever the availability
\* checks find: every step of such a session lowers a bound on the prompts
\* that are left, and the bound is 0 only at the exit.
C27_EmptyInputTerminates ==
    [][typed' = 0 => (Variant' < Variant /\ Variant' >= 0)]_vars

\* a session of empty answers on a host whose port 16111 stays occupied: it
\* ended when the nested calls of network_configuration reached the limit
C27_Witness ==
    /\ typed = 0
    /\ pc = "done"
    /\ prompted = "press_enter_error"
    /\ exit_code = 1

\* the text is the canonical decimal string of an integer in [1,65535]:
\* digits only, no leading zero
CanonicalPort(text) ==
    /\ text # <<>>
    /\ \A i \in 1..Len(text) : text[i] \in Range(DigitChars)
    /\ text[1] # "0"
    /\ Len(text) <= 5
    /\ DigitsValue(text, 10) <= 65535

\* C28: whatever the operator types, every value the wizard holds or writes
\* for P2P_PORT, GRPC_PORT, WRPC_BORSH_PORT and WRPC_JSON_PORT is the
\* canonical decimal string (no sign, no leading zero, no blank) of an
\* integer in [1,65535].
C28_CanonicalPorts ==
    /\ \A i \in 1..Len(PortKeys) :
          /\ PortKeys[i] \in DOMAIN locals => CanonicalPort(locals[PortKeys[i]])
          /\ PortKeys[i] \in DOMAIN config => CanonicalPort(config[PortKeys[i]])
    /\ saved = "written" =>
          \A i \in 1..Len(env_file.lines) :
              env_file.lines[i].key \in Range(PortKeys) =>
                  CanonicalPort(env_file.lines[i].value)

\* the operator typed a signed port and a port with leading zeros; the file
\* holds 80 for both
C28_Witness ==
    /\ saved = "written"
    /\ typed = 2
    /\ env_file.lines[5] = [key |-> "P2P_PORT", value |-> <<"8", "0">>]
    /\ env_file.lines[8] = [key |-> "WRPC_JSON_PORT", value |-> <<"8", "0">>]

(***************************************************************************)
(* Claims about the installer, checked under SpecInstaller.                *)
(***************************************************************************)
\* C14: in every installation branch (Ubuntu/Debian, CentOS/RHEL/Fedora,
\* Arch, macOS) the first external command that exits non-zero makes the
\* branch report failure, and no later command of that branch is invoked:
\* a command of a branch that exited non-zero is the last command the run
\* invoked, and the run has ended with exit code 1.
C14_AsStated ==
    \A i \in 1..Len(invoked) :
        (/\ Command(invoked[i].step).fn \in InstallBranches
         /\ invoked[i].outcome = "nonzero")
            => (i = Len(invoked) /\ pc = "done" /\ exit_code = 1)

\* C15: on a host where docker and its compose tool (the standalone
\* docker-compose binary or the docker compose plugin) are already present,
\* installation is skipped and the run proceeds directly to verification:
\* the first interaction of the run is the version query of the
\* verification, never a package-manager, repository or download command.
C15_AsStated ==
    (/\ pc # "installer"
     /\ invoked = <<>>
     /\ "docker" \in installed
     /\ {"docker-compose", "compose-plugin"} \cap installed # {})
        => pc \in {"verify.version", "done"}

\* C16: the run exits with code 0 only if the verification it executed last
\* saw the docker version query succeed, then the separate daemon-status
\* query (docker info) succeed, then a compose version query succeed (the
\* plugin's, or the standalone binary's after the plugin's failed); a failed
\* docker version or daemon-status query of the verification is the last
\* command of the run, which exits 1.
C16_VerificationGatesSuccess ==
    LET n == Len(invoked)
        Ran(i, step, good) ==
            /\ i \in 1..n
            /\ invoked[i].step = step
            /\ (invoked[i].outcome = "0") = good
    IN  /\ exit_code = 0 =>
              \/ /\ Ran(n - 2, "verify.version", TRUE)
                 /\ Ran(n - 1, "verify.info", TRUE)
                 /\ Ran(n, "verify.plugin", TRUE)
              \/ /\ Ran(n - 3, "verify.version", TRUE)
                 /\ Ran(n - 2, "verify.info", TRUE)
                 /\ Ran(n - 1, "verify.plugin", FALSE)
                 /\ Ran(n, "verify.standalone", TRUE)
        /\ \A i \in 1..n :
              (Ran(i, "verify.version", FALSE) \/ Ran(i, "verify.info", FALSE))
                  => (i = n /\ pc = "done" /\ exit_code = 1)

\* docker was installed through the CentOS/RHEL/Fedora branch and the final
\* verification then succeeded
C16_Witness ==
    /\ pc = "done" /\ exit_code = 0
    /\ invoked[1].step = "centos.yum_utils"
    /\ invoked[Len(invoked)] = [step |-> "verify.plugin", outcome |-> "0"]

\* the distributions install_docker_linux has a branch for
SupportedDistros == {"ubuntu", "debian", "centos", "rhel", "fedora", "arch"}

\* C17: when the distribution detection yields `unknown` or an identifier
\* outside the supported set, the installer does not treat it as fatal: a
\* run in which nothing else went wrong (no command was run at all) does not
\* end with the failure exit code.
C17_AsStated ==
    (/\ pc = "done"
     /\ "distro" \in DOMAIN detected
     /\ detected.distro \notin SupportedDistros
     /\ invoked = <<>>)
        => exit_code # 1

\* C24: nothing is retried automatically: after a command of an installation
\* branch has failed, the same command is not run again, and no alternative command is
\* run for the step it belonged to (after a failed key conversion the key is
\* not imported another way).
C24_AsStated ==
    \A i \in 1..Len(invoked) : \A j \in 1..Len(invoked) :
        (i < j /\ invoked[i].outcome # "0"
               /\ Command(invoked[i].step).fn \in InstallBranches) =>
            /\ Command(invoked[j].step).cmd # Command(invoked[i].step).cmd
            /\ invoked[i].step = "ubuntu.dearmor" =>
                  invoked[j].step # "ubuntu.apt_key"

\* the ID= lines of a readable OS-release descriptor
IdLines(file) ==
    IF file.open # "ok" THEN <<>>
    ELSE SelectSeq(file.lines,
                   LAMBDA line : Len(line) >= 3 /\ line[1] = "I"
                                     /\ line[2] = "D" /\ line[3] = "=")

\* the identifier an ID= line carries: what follows ID=, without quotes,
\* blanks and the line terminator
Identifier(line) ==
    Text(SelectSeq(SubSeq(line, 4, Len(line)),
                   LAMBDA c : c \notin {"\"", " ", "\n"}))

\* C26: the distribution detection returns the identifier of the ID= line
\* of the OS-release descriptor when there is one; only when the descriptor
\* is absent, unreadable or has no ID= line does it go by the marker files,
\* the debian marker first, then the redhat marker, then the arch marker;
\* it returns `unknown` exactly when there is neither an identifier nor a
\* marker file.
C26_DistroDetection ==
    "distro" \in DOMAIN detected =>
        LET ids == IdLines(detected.os_release)
            markers == detected.markers
        IN  /\ ids # <<>> => detected.distro = Identifier(Head(ids))
            /\ ids = <<>> =>
                  detected.distro =
                      CASE "/etc/debian_version" \in markers -> "debian"
                        [] /\ "/etc/debian_version" \notin markers
                           /\ "/etc/redhat-release" \in markers -> "rhel"
                        [] markers = {"/etc/arch-release"} -> "arch"
                        [] OTHER -> "unknown"
            /\ (detected.distro = "unknown") = (ids = <<>> /\ markers = {})

\* the descriptor cannot be read, the redhat and the arch marker exist, and
\* the CentOS/RHEL/Fedora branch was entered
C26_Witness ==
    /\ "distro" \in DOMAIN detected
    /\ detected.os_release = [open |-> "denied"]
    /\ detected.markers = {"/etc/redhat-release", "/etc/arch-release"}
    /\ detected.distro = "rhel"
    /\ pc = "centos.yum_utils"

====
